---------------------------- MODULE Spec2Model ----------------------------
(***************************************************************************)
(* RCloneGUI: the process-lifecycle core (app/core).                       *)
(*                                                                         *)
(*   - SyncScheduler   (app/core/scheduler.py)                             *)
(*   - SyncManager     (app/core/sync_manager.py) with its SyncWorker      *)
(*   - MountManager    (app/core/mount_manager.py) with its MountWorker    *)
(*   - Mount           (app/models/mount.py)                               *)
(*   - SyncTask        (app/models/sync_task.py)                           *)
(*   - RClone          (app/core/rclone.py), its config_* commands         *)
(*                                                                         *)
(* The specifications share the variables:                                 *)
(*   SchedSpec     the scheduler driven through its own API                *)
(*   TickSpec      the tick with failing cron expressions and callbacks    *)
(*   SyncSpec      the sync manager, its workers and its scheduler         *)
(*   RunSpec       the sync manager under a moving wall clock              *)
(*   MountSpec     the mount manager, its workers and the OS it observes   *)
(*   RegistrySpec  the mount registry: discovery and mounts.json           *)
(*   KillSpec      unmount among processes the application did not start   *)
(*   TerminateSpec unmount of a mount with a stored pid                    *)
(*   BatchSpec     unmount_all and auto_mount_all over two mounts          *)
(*   DriveSpec     the drive letters get_available_drives returns          *)
(*   LockSpec      the handlers step by step around the managers' mutex    *)
(*   TimerSpec     the scheduler thread's timer over the minutes           *)
(*   LoadSpec      load_tasks over the entries of a tasks file             *)
(*   ProgressSpec  the writes of a task's progress                         *)
(*   ParseSpec     the parser of an rclone mount command line              *)
(*   StatsSpec     the parser of a line of rclone's progress output        *)
(*   ConfigSpec    config_create, config_update and config_delete          *)
(*   CancelSpec    one run of a worker thread against one cancel()         *)
(*   LoopSpec      the tick with callbacks that remove tasks               *)
(*   ScheduleSpec  the scheduled flag under the schedule operations        *)
(*   RestartSpec   tasks saved and loaded again at the next start          *)
(*   PipeSpec      one run of a worker over the subprocess's pipes         *)
(*   SessionSpec   mounts saved, the application started again             *)
(*   FileSpec      load_mounts over the contents of mounts.json            *)
(*                                                                         *)
(* Python dicts are functions whose DOMAIN is the set of keys; an Optional *)
(* value is <<>> (None) or <<v>>.  Handlers that run on the event-loop     *)
(* thread are one action each; a worker thread is a process whose steps    *)
(* interleave with them; a signal emitted by a worker thread is queued and *)
(* delivered later on the event-loop thread.                               *)
(***************************************************************************)
EXTENDS Integers, Sequences, FiniteSets, TLC

VARIABLES
    \* ---- SyncScheduler
    scheduled_tasks,    \* _scheduled_tasks : task id -> cron expression
    last_run_times,     \* _last_run_times  : task id -> time
    triggered_tasks,    \* _triggered_tasks : set of task ids
    last_check_time,    \* _last_check_time : Optional time
    check_callback,     \* _check_callback  : Optional callable, by what a call of it does
    now,                \* the wall clock, datetime.now()
    \* ---- SyncManager
    tasks,              \* tasks   : task id -> SyncTask
    workers,            \* workers : task id -> worker handle
    sync_threads,       \* live SyncWorker threads : handle -> thread state
    sync_queue,         \* worker signals queued for the event-loop thread
    \* ---- MountManager and the OS it observes
    os_name,            \* os.name
    drives,             \* the drive letters whose path exists
    procs,              \* live rclone mount processes : pid -> drive
    mounts,             \* mounts  : key -> Mount
    mount_workers,      \* workers : remote name -> worker handle
    mount_threads,      \* MountWorker objects : handle -> thread state
    mount_queue,        \* worker signals queued for the event-loop thread
    mounts_file,        \* the content of mounts.json, None while it does not exist
    scan,               \* what the last refresh_mount_status queried and discovered
    calls,              \* what the last unmount called to end processes, in order
    \* ---- observation (history) variables
    lastOp,             \* the handler that ran last, its argument and result
    events,             \* the signals the last handler emitted, in order
    left,               \* the task ids the last handler took out of _triggered_tasks
    dueCount,           \* taskDue events per task since its window opened
    winTicks,           \* ticks per task since the first tick that found it due
    \* ---- the mutexes
    mutex,              \* self._lock of each manager : None, or the thread that holds it
    stepping,           \* thread -> the handler it is in and its position, or None
    lastStep,           \* the step executed last, and whether its thread held the lock
    \* ---- SchedulerThread
    timer_active,       \* _timer.isActive()
    last_minute,        \* _last_minute
    minute,             \* the minute value of the wall clock, datetime.now().minute
    observed,           \* the minute the last timer fire or start read, None before
    fires,              \* timer fires since the wall clock last changed its minute
    fireTicks,          \* ticks those fires emitted
    \* ---- SyncTask
    tasks_file,         \* the entries of sync_tasks.json, None while it does not exist
    written,            \* the progress value written last, None before
    \* ---- the parsers
    text,               \* the line handed to a parser
    expected,           \* what the line stands for, by how it was built
    parsed,             \* what _parse_rclone_mount_cmdline returned
    \* ---- RClone
    args,               \* the remote name and the option keys of the last config_* call
    executed,           \* the commands the last config_* call ran
    \* ---- one SyncWorker, its thread and a caller of cancel()
    _cancelled,         \* self._cancelled
    _process,           \* self._process: None or the Popen object
    run_pc,             \* where run() stands on the worker thread
    cancel_pc,          \* where cancel() stands on the caller's thread
    child,              \* the subprocess: "none", "running" or "exited"
    signalled,          \* terminate() was called on the subprocess
    returncode,         \* the exit code of the subprocess
    stderr_closed,      \* communicate() has closed the pipes of the Popen object
    message,            \* the local `message` of run()
    lines,              \* the lines run() has read
    completions,        \* the finished signals run() has emitted
    cancel_at,          \* where run() stood when cancel() set the flag
    \* ---- the pipes between the SyncWorker and its subprocess
    stdout_pipe,        \* lines buffered in the stdout pipe
    stderr_pipe,        \* lines buffered in the stderr pipe
    pending,            \* the stream the subprocess is writing a line to, None otherwise
    output              \* lines the subprocess has written so far

schedVars == <<scheduled_tasks, last_run_times, triggered_tasks, last_check_time,
               check_callback, now>>
syncVars  == <<tasks, workers, sync_threads, sync_queue>>
mountVars == <<os_name, drives, procs, mounts, mount_workers, mount_threads,
               mount_queue, mounts_file, scan, calls>>
obsVars   == <<lastOp, events, left, dueCount, winTicks>>
lockVars  == <<mutex, stepping, lastStep>>
timerVars == <<timer_active, last_minute, minute, observed, fires, fireTicks>>
taskVars  == <<tasks_file, written>>
parseVars == <<text, expected, parsed>>
rcloneVars == <<args, executed>>
runVars   == <<_cancelled, _process, run_pc, cancel_pc, child, signalled, returncode,
               stderr_closed, message, lines, completions, cancel_at>>
pipeVars  == <<stdout_pipe, stderr_pipe, pending, output>>
unitVars  == <<lockVars, timerVars, taskVars, parseVars, rcloneVars, runVars, pipeVars>>
vars      == <<schedVars, syncVars, mountVars, obsVars, unitVars>>

-----------------------------------------------------------------------------
(* Bounds of the model *)

\* wall-clock times are minutes 1..MaxTime after the epoch (minute 0)
MaxTime == 4
\* the history counters saturate here
MaxCount == 3
\* at most this many SyncWorker threads are alive at once
MaxWorkers == 2
\* at most this many worker signals wait in the event queue
MaxQueue == 2

TaskIds == {"t1", "t2"}
Times   == 1..MaxTime
Epoch   == 0

None    == <<>>
Some(x) == <<x>>

Min(a, b) == IF a < b THEN a ELSE b
Bump(n)   == Min(n + 1, MaxCount)

\* dict helpers
Put(f, k, v) == [x \in (DOMAIN f) \cup {k} |-> IF x = k THEN v ELSE f[x]]
Del(f, k)    == [x \in (DOMAIN f) \ {k} |-> f[x]]
Empty        == [x \in {} |-> x]

Op(name, id, ret) == [name |-> name, id |-> id, ret |-> ret]
Ev(sig, id, arg)  == [sig |-> sig, id |-> id, arg |-> arg]

-----------------------------------------------------------------------------
(* croniter *)

\* the cron expressions of the model: every 2nd and every 3rd minute, and a
\* string croniter rejects
CronExprs == {"*/2 * * * *", "*/3 * * * *", "bogus"}

CronPeriod(c) ==
    CASE c = "*/2 * * * *" -> 2
      [] c = "*/3 * * * *" -> 3
      [] OTHER -> 0

\* a date that never comes (30 February): croniter(c) accepts the expression,
\* get_next() raises CroniterBadDateError, a ValueError
NeverCron == "0 0 30 2 *"

\* croniter(c) raises ValueError on an invalid expression
CronValid(c) == CronPeriod(c) > 0 \/ c = NeverCron

\* croniter(c, base).get_next() returns a time
CronComputes(c) == CronPeriod(c) > 0

\* croniter(c, base).get_next(): the first occurrence strictly after base
CronNext(c, base) == ((base \div CronPeriod(c)) + 1) * CronPeriod(c)


-----------------------------------------------------------------------------
(* SyncManager.run_task, as a function of the manager's state: it is called *)
(* by the user and, through the taskDue signal, by the scheduler's tick.    *)

WorkerIds == 1..MaxWorkers

Range(f) == {f[x] : x \in DOMAIN f}

\* the worker handles that still denote something: a live thread or a registry entry
UsedHandles(W, TH) == (DOMAIN TH) \cup Range(W)

FreeHandle(W, TH) ==
    CHOOSE w \in WorkerIds \ UsedHandles(W, TH) :
        \A v \in WorkerIds \ UsedHandles(W, TH) : w <= v

NewSyncThread(id) == [task |-> id, cancelled |-> FALSE, pc |-> "start", process |-> "unset"]

RunTaskRejects_NoGuard(T, id) == id \notin DOMAIN T

\* run_task returns False: the task is unknown, or it is already Running
RunTaskRejects(T, id) ==
    IF id \notin DOMAIN T THEN TRUE ELSE T[id].status = "RUNNING"

\* M = [tasks, workers, threads, events]
RunTaskOn(M, id) ==
    IF RunTaskRejects(M.tasks, id) THEN M
    ELSE LET w == FreeHandle(M.workers, M.threads) IN
         [tasks   |-> [M.tasks EXCEPT ![id].status = "RUNNING"],
          workers |-> Put(M.workers, id, w),
          threads |-> Put(M.threads, w, NewSyncThread(id)),
          events  |-> Append(M.events, Ev("taskStatusChanged", id, "RUNNING"))]

\* _on_scheduled_task_due, the slot connected to the scheduler's taskDue
OnScheduledTaskDue(M, id) ==
    IF id \in DOMAIN M.tasks
    THEN RunTaskOn([M EXCEPT !.events = Append(@, Ev("scheduledTaskDue", id, ""))], id)
    ELSE M

Manager == [tasks |-> tasks, workers |-> workers, threads |-> sync_threads, events |-> <<>>]

SetManager(M) ==
    /\ tasks' = M.tasks
    /\ workers' = M.workers
    /\ sync_threads' = M.threads
    /\ events' = M.events

-----------------------------------------------------------------------------
(* SyncScheduler *)

\* S = [st, lr, tr, dc, wt]: the three maps of the scheduler and the two counters
Sched == [st |-> scheduled_tasks, lr |-> last_run_times, tr |-> triggered_tasks,
          dc |-> dueCount, wt |-> winTicks]

SetSched(S) ==
    /\ scheduled_tasks' = S.st
    /\ last_run_times' = S.lr
    /\ triggered_tasks' = S.tr
    /\ dueCount' = S.dc
    /\ winTicks' = S.wt
    /\ UNCHANGED unitVars
    /\ left' = triggered_tasks \ S.tr

\* a task's window closes: its counters start again
CloseWindow(S, t) == [S EXCEPT !.dc[t] = 0, !.wt[t] = 0]

\* add_task: lr is the Optional last_run argument
AddTaskAccepts(c) == CronValid(c)

SchedAddTask_ResetsTriggered(S, t, c, lr) ==
    IF CronValid(c)
    THEN [S EXCEPT !.st = Put(@, t, c),
                   !.lr = IF lr # None THEN Put(@, t, lr[1]) ELSE @,
                   !.tr = @ \ {t}]
    ELSE S

SchedAddTask(S, t, c, lr) ==
    IF AddTaskAccepts(c)
    THEN [S EXCEPT !.st = Put(@, t, c),
                   !.lr = IF lr # None THEN Put(@, t, lr[1]) ELSE @]
    ELSE S

SchedRemoveTask(S, t) ==
    CloseWindow([S EXCEPT !.st = Del(@, t), !.lr = Del(@, t), !.tr = @ \ {t}], t)

\* update_last_run: rt is the Optional run_time argument
SchedUpdateLastRun_KeepTriggered(S, t, rt) ==
    IF t \in DOMAIN S.st
    THEN [S EXCEPT !.lr = Put(@, t, IF rt # None THEN rt[1] ELSE now)]
    ELSE S

SchedUpdateLastRun(S, t, rt) ==
    IF t \in DOMAIN S.st
    THEN CloseWindow([S EXCEPT !.lr = Put(@, t, IF rt # None THEN rt[1] ELSE now),
                               !.tr = @ \ {t}], t)
    ELSE S

\* update_task
SchedUpdateTaskRet(S, t, c) == t \in DOMAIN S.st /\ AddTaskAccepts(c)

SchedUpdateTask(S, t, c) ==
    LET last_run == IF t \in DOMAIN S.lr THEN Some(S.lr[t]) ELSE None IN
    IF t \in DOMAIN S.st THEN SchedAddTask(S, t, c, last_run) ELSE S

SchedClear(S) ==
    [S EXCEPT !.st = Empty, !.lr = Empty, !.tr = {},
              !.dc = [t \in TaskIds |-> 0], !.wt = [t \in TaskIds |-> 0]]

\* ---- _on_tick

\* now < _last_check_time
TickRollback == last_check_time # None /\ now < last_check_time[1]

TickTriggered_NoReset == triggered_tasks

\* the triggered set the evaluation of the tasks starts from
TickTriggered == IF TickRollback THEN {} ELSE triggered_tasks

\* base_time = last_run or datetime.fromtimestamp(0)
BaseTime(t) == IF t \in DOMAIN last_run_times THEN last_run_times[t] ELSE Epoch

TaskIsDue_AllCompute(t) ==
    /\ \A u \in DOMAIN scheduled_tasks : CronComputes(scheduled_tasks[u])
    /\ now >= CronNext(scheduled_tasks[t], BaseTime(t))

\* croniter raised nothing and now >= next_run; what it raises for this task
\* is caught in the loop body
TaskIsDue(t) ==
    /\ CronComputes(scheduled_tasks[t])
    /\ now >= CronNext(scheduled_tasks[t], BaseTime(t))

TickFires_NoGuard(t) == TaskIsDue(t)

\* the task gets its due-event in this tick
TickFires(t) == TaskIsDue(t) /\ t \notin TickTriggered

TickFired == {t \in DOMAIN scheduled_tasks : TickFires(t)}

\* what the tick adds to the triggered set
TickAdds == TickFired

\* what a check callback does when it is called
Callbacks == {"returns", "raises"}

\* self._check_callback(task_id) inside its own try: the call is observed,
\* what it raises is caught
CallCheck(M, t) ==
    IF check_callback = None THEN M
    ELSE [M EXCEPT !.events = Append(@, Ev("_check_callback", t, check_callback[1]))]

\* taskDue.emit for every fired task, each followed by the manager's slot and
\* by the check callback
RECURSIVE EmitDue(_, _)
EmitDue(F, M) ==
    IF F = {} THEN M
    ELSE LET t == CHOOSE x \in F : TRUE IN
         EmitDue(F \ {t},
                 CallCheck(OnScheduledTaskDue(
                              [M EXCEPT !.events = Append(@, Ev("taskDue", t, ""))], t), t))

\* the tasks a tick would start a worker for
TickStarts == {t \in TickFired : ~RunTaskRejects(tasks, t)}

OnTick ==
    /\ Cardinality(UsedHandles(workers, sync_threads)) + Cardinality(TickStarts) <= MaxWorkers
    /\ last_check_time' = Some(now)
    /\ triggered_tasks' = TickTriggered \cup TickAdds
    /\ last_run_times' = [t \in (DOMAIN last_run_times) \cup TickFired |->
                             IF t \in TickFired THEN now ELSE last_run_times[t]]
    /\ SetManager(EmitDue(TickFired, Manager))
    /\ dueCount' = [t \in TaskIds |->
                      LET base == IF TickRollback THEN 0 ELSE dueCount[t] IN
                      IF t \in TickFired THEN Bump(base) ELSE base]
    /\ winTicks' = [t \in TaskIds |->
                      LET base == IF TickRollback THEN 0 ELSE winTicks[t] IN
                      IF base > 0 THEN Bump(base)
                      ELSE IF t \in DOMAIN scheduled_tasks /\ TaskIsDue(t) THEN 1 ELSE 0]
    /\ left' = triggered_tasks \ (TickTriggered \cup TickAdds)
    /\ UNCHANGED unitVars
    /\ lastOp' = Op("_on_tick", "", IF TickRollback THEN "rollback" ELSE "")
    /\ UNCHANGED <<scheduled_tasks, now, sync_queue, mountVars, check_callback>>

\* ---- the scheduler's API, called directly

LastRunArgs == {None} \cup {Some(t) : t \in Times}

SchedulerAddTask(t, c, lr) ==
    /\ SetSched(SchedAddTask(Sched, t, c, lr))
    /\ lastOp' = Op("scheduler.add_task", t, IF AddTaskAccepts(c) THEN "True" ELSE "False")
    /\ events' = <<>>
    /\ UNCHANGED <<last_check_time, now, syncVars, mountVars, check_callback>>

SchedulerRemoveTask(t) ==
    /\ SetSched(SchedRemoveTask(Sched, t))
    /\ lastOp' = Op("scheduler.remove_task", t, "")
    /\ events' = <<>>
    /\ UNCHANGED <<last_check_time, now, syncVars, mountVars, check_callback>>

SchedulerUpdateTask(t, c) ==
    /\ SetSched(SchedUpdateTask(Sched, t, c))
    /\ lastOp' = Op("scheduler.update_task", t,
                    IF SchedUpdateTaskRet(Sched, t, c) THEN "True" ELSE "False")
    /\ events' = <<>>
    /\ UNCHANGED <<last_check_time, now, syncVars, mountVars, check_callback>>

SchedulerUpdateLastRun(t, rt) ==
    /\ SetSched(SchedUpdateLastRun(Sched, t, rt))
    /\ lastOp' = Op("scheduler.update_last_run", t, "")
    /\ events' = <<>>
    /\ UNCHANGED <<last_check_time, now, syncVars, mountVars, check_callback>>

SchedulerClear ==
    /\ SetSched(SchedClear(Sched))
    /\ last_check_time' = None
    /\ lastOp' = Op("scheduler.clear", "", "")
    /\ events' = <<>>
    /\ UNCHANGED <<now, syncVars, mountVars, check_callback>>

\* set_check_callback
SetCheckCallback(cb) ==
    /\ check_callback' = Some(cb)
    /\ lastOp' = Op("scheduler.set_check_callback", "", cb)
    /\ events' = <<>>
    /\ left' = {}
    /\ UNCHANGED <<scheduled_tasks, last_run_times, triggered_tasks, last_check_time, now,
                   syncVars, mountVars, dueCount, winTicks,
                   unitVars>>

\* the wall clock moves, forwards or (a clock correction) backwards
SetClock(t) ==
    /\ t # now
    /\ now' = t
    /\ lastOp' = Op("clock", "", "")
    /\ events' = <<>>
    /\ left' = {}
    /\ UNCHANGED <<scheduled_tasks, last_run_times, triggered_tasks, last_check_time,
                   syncVars, mountVars, dueCount, winTicks, check_callback,
                   unitVars>>

-----------------------------------------------------------------------------
(* SyncManager: the handlers that run on the event-loop thread *)

Cancelled == "cancelled"      \* the worker's message "已取消"
Finished  == "done"           \* the worker's message "完成"
Failed    == "failed"         \* the worker's message "失败 (返回码: n)"
LaunchErr == "launch error"   \* str(e) of the exception Popen raised
NoProcess == "no process"     \* str(e) of the AttributeError a call on self._process raises
                              \* once cancel() has set it to None

\* SyncTask(...) as add_task builds it
NewSyncTask ==
    [mode |-> "SYNC", status |-> "IDLE", progress |-> 0,
     scheduled |-> FALSE, cron_expression |-> "",
     last_run |-> None, error_message |-> None]

\* SyncWorker.cancel() called on handle w: the flag is set; a thread that has
\* ended is not affected
\* (a launched process is terminated and self._process is set to None)
CancelWorker(TH, w) ==
    IF w \in DOMAIN TH
    THEN [TH EXCEPT ![w].cancelled = TRUE,
                    ![w].process = IF @ = "live" THEN "cleared" ELSE @]
    ELSE TH

\* the scheduler is not called
NoSched ==
    /\ left' = {}
    /\ UNCHANGED <<scheduled_tasks, last_run_times, triggered_tasks, dueCount, winTicks>>
    /\ UNCHANGED unitVars

\* the ids that denote a task: a registered one, or one a worker or a queued
\* worker signal still names
KnownIds ==
    (DOMAIN tasks) \cup {sync_threads[w].task : w \in DOMAIN sync_threads}
                   \cup {sync_queue[i].id : i \in 1..Len(sync_queue)}

\* add_task: the new task gets a fresh id (uuid4)
AddTask(id) ==
    /\ id \notin KnownIds
    /\ tasks' = Put(tasks, id, NewSyncTask)
    /\ lastOp' = Op("add_task", id, "")
    /\ events' = <<>>
    /\ NoSched
    /\ UNCHANGED <<workers, sync_threads, sync_queue, last_check_time, now, mountVars, check_callback>>

RemoveTask(id) ==
    /\ lastOp' = Op("remove_task", id, "")
    /\ events' = <<>>
    /\ IF id \in DOMAIN tasks
       THEN /\ workers' = Del(workers, id)
            /\ sync_threads' = IF id \in DOMAIN workers
                               THEN CancelWorker(sync_threads, workers[id])
                               ELSE sync_threads
            /\ tasks' = Del(tasks, id)
            /\ SetSched(SchedRemoveTask(Sched, id))
       ELSE /\ NoSched
            /\ UNCHANGED <<tasks, workers, sync_threads>>
    /\ UNCHANGED <<sync_queue, last_check_time, now, mountVars, check_callback>>

RunTask(id) ==
    /\ IF RunTaskRejects(tasks, id) THEN TRUE
       ELSE UsedHandles(workers, sync_threads) # WorkerIds
    /\ SetManager(RunTaskOn(Manager, id))
    /\ lastOp' = Op("run_task", id, IF RunTaskRejects(tasks, id) THEN "False" ELSE "True")
    /\ NoSched
    /\ UNCHANGED <<sync_queue, last_check_time, now, mountVars, check_callback>>

\* cancel_task: the status a known task is left with
CancelTaskStatus(T, id) ==
    IF id \in DOMAIN T THEN [T EXCEPT ![id].status = "IDLE"] ELSE T

CancelTask(id) ==
    /\ workers' = Del(workers, id)
    /\ sync_threads' = IF id \in DOMAIN workers
                       THEN CancelWorker(sync_threads, workers[id])
                       ELSE sync_threads
    /\ tasks' = CancelTaskStatus(tasks, id)
    /\ events' = IF id \in DOMAIN tasks
                 THEN <<Ev("taskStatusChanged", id, "IDLE")>> ELSE <<>>
    /\ lastOp' = Op("cancel_task", id, IF id \in DOMAIN workers THEN "worker" ELSE "")
    /\ NoSched
    /\ UNCHANGED <<sync_queue, last_check_time, now, mountVars, check_callback>>

EnableSchedule(id, c) ==
    /\ events' = <<>>
    /\ IF id \notin DOMAIN tasks
       THEN /\ lastOp' = Op("enable_schedule", id, "False")
            /\ NoSched
            /\ UNCHANGED tasks
       ELSE /\ SetSched(SchedAddTask(Sched, id, c, tasks[id].last_run))
            /\ tasks' = [tasks EXCEPT ![id].cron_expression = c,
                                      ![id].scheduled = AddTaskAccepts(c)]
            /\ lastOp' = Op("enable_schedule", id,
                            IF AddTaskAccepts(c) THEN "True" ELSE "False")
    /\ UNCHANGED <<workers, sync_threads, sync_queue, last_check_time, now, mountVars, check_callback>>

DisableSchedule(id) ==
    /\ events' = <<>>
    /\ lastOp' = Op("disable_schedule", id, "")
    /\ IF id \in DOMAIN tasks
       THEN /\ tasks' = [tasks EXCEPT ![id].scheduled = FALSE, ![id].cron_expression = ""]
            /\ SetSched(SchedRemoveTask(Sched, id))
       ELSE /\ NoSched
            /\ UNCHANGED tasks
    /\ UNCHANGED <<workers, sync_threads, sync_queue, last_check_time, now, mountVars, check_callback>>

UpdateSchedule(id, c) ==
    /\ events' = <<>>
    /\ IF id \notin DOMAIN tasks
       THEN /\ lastOp' = Op("update_schedule", id, "False")
            /\ NoSched
            /\ UNCHANGED tasks
       ELSE /\ tasks' = [tasks EXCEPT ![id].cron_expression = c]
            /\ IF tasks[id].scheduled
               THEN /\ SetSched(SchedUpdateTask(Sched, id, c))
                    /\ lastOp' = Op("update_schedule", id,
                                    IF SchedUpdateTaskRet(Sched, id, c) THEN "True" ELSE "False")
               ELSE /\ NoSched
                    /\ lastOp' = Op("update_schedule", id, "True")
    /\ UNCHANGED <<workers, sync_threads, sync_queue, last_check_time, now, mountVars, check_callback>>

\* ---- the slots the worker signals are delivered to

\* _on_task_started
OnTaskStarted(id) ==
    /\ tasks' = IF id \in DOMAIN tasks THEN [tasks EXCEPT ![id].status = "RUNNING"] ELSE tasks
    /\ events' = IF id \in DOMAIN tasks
                 THEN <<Ev("taskStatusChanged", id, "RUNNING")>> ELSE <<>>
    /\ lastOp' = Op("_on_task_started", id, "")
    /\ NoSched
    /\ UNCHANGED workers

\* _on_task_finished: the status the task gets
FinishedStatus_Idle(ok, msg) == "IDLE"

FinishedStatus(ok, msg) == IF ok THEN "COMPLETED" ELSE "ERROR"

\* _on_task_finished
OnTaskFinished(id, ok, msg) ==
    /\ lastOp' = Op("_on_task_finished", id, msg)
    /\ workers' = Del(workers, id)
    /\ IF id \in DOMAIN tasks
       THEN /\ tasks' = [tasks EXCEPT ![id].last_run = Some(now),
                                      ![id].status = FinishedStatus(ok, msg),
                                      ![id].error_message = IF ok THEN None ELSE Some(msg)]
            /\ events' = (IF ok THEN <<>> ELSE <<Ev("taskError", id, msg)>>)
                         \o <<Ev("taskStatusChanged", id, FinishedStatus(ok, msg)),
                              Ev("taskCompleted", id, msg)>>
            /\ IF tasks[id].scheduled
               THEN SetSched(SchedUpdateLastRun(Sched, id, Some(now)))
               ELSE NoSched
       ELSE /\ NoSched
            /\ events' = <<>>
            /\ UNCHANGED tasks

\* the event loop delivers the oldest queued worker signal
Deliver ==
    /\ sync_queue # <<>>
    /\ LET e == Head(sync_queue) IN
         IF e.sig = "started" THEN OnTaskStarted(e.id)
         ELSE OnTaskFinished(e.id, e.ok, e.msg)
    /\ sync_queue' = Tail(sync_queue)
    /\ UNCHANGED <<sync_threads, last_check_time, now, mountVars, check_callback>>

-----------------------------------------------------------------------------
(* SyncWorker.run: the steps of one worker thread *)

Sig(sig, id, ok, msg) == [sig |-> sig, id |-> id, ok |-> ok, msg |-> msg]

WorkerSilent ==
    /\ NoSched
    /\ events' = <<>>
    /\ UNCHANGED <<tasks, workers, last_check_time, now, mountVars, check_callback>>

\* self.started.emit(self.task.id), then subprocess.Popen(...): the process
\* runs, or Popen raises and the run ends with finished(False, str(e))
WorkerLaunch(w, raised) ==
    /\ w \in DOMAIN sync_threads
    /\ sync_threads[w].pc = "start"
    /\ LET id == sync_threads[w].task
           q  == Append(sync_queue, Sig("started", id, FALSE, "")) IN
         IF raised
         THEN /\ Len(sync_queue) + 2 <= MaxQueue
              /\ sync_queue' = Append(q, Sig("finished", id, FALSE, LaunchErr))
              /\ sync_threads' = Del(sync_threads, w)
         ELSE /\ Len(sync_queue) + 1 <= MaxQueue
              /\ sync_queue' = q
              /\ sync_threads' = [sync_threads EXCEPT ![w].pc = "run", ![w].process = "live"]
    /\ lastOp' = Op("worker", sync_threads[w].task, IF raised THEN "raised" ELSE "")
    /\ WorkerSilent

\* success and not self._cancelled
WorkerSuccess(rc, cancelled) == rc = 0 /\ ~cancelled

WorkerMessage(rc, cancelled) ==
    IF cancelled THEN Cancelled ELSE IF rc = 0 THEN Finished ELSE Failed

\* the read loop ends (the cancel flag was seen, or stderr reached its end),
\* return_code = self._process.wait(), then finished.emit and the thread ends
WorkerExit(w, rc) ==
    /\ w \in DOMAIN sync_threads
    /\ sync_threads[w].pc = "run"
    /\ Len(sync_queue) < MaxQueue
    /\ LET th == sync_threads[w] IN
         sync_queue' = Append(sync_queue,
                Sig("finished", th.task, WorkerSuccess(rc, th.cancelled),
                    WorkerMessage(rc, th.cancelled)))
    /\ lastOp' = Op("worker", sync_threads[w].task, ToString(rc))
    /\ sync_threads' = Del(sync_threads, w)
    /\ WorkerSilent

\* the worker thread reads self._process (line 86 or 96) after cancel(), on
\* the GUI thread, has set it to None: the AttributeError is caught by the
\* except clause of run, which reports it
WorkerRaises(w) ==
    /\ w \in DOMAIN sync_threads
    /\ sync_threads[w].pc = "run"
    /\ sync_threads[w].process = "cleared"
    /\ Len(sync_queue) < MaxQueue
    /\ sync_queue' = Append(sync_queue, Sig("finished", sync_threads[w].task, FALSE, NoProcess))
    /\ lastOp' = Op("worker", sync_threads[w].task, "raised")
    /\ sync_threads' = Del(sync_threads, w)
    /\ WorkerSilent

ExitCodes == {0, 1}

-----------------------------------------------------------------------------
(* Mount (app/models/mount.py) *)

\* at most this many rclone mount processes of this session are alive
MaxPid == 2
\* the platform's process query returns at most this many lines
MaxProcs == 2

OsNames      == {"nt", "posix"}
DriveLetters == {"X", "Y"}
\* drive letters as a caller writes them
DriveInputs  == {"X", "y"}
Pids         == 1..MaxPid

\* str.upper() on a drive letter
Upper(d) == IF d = "x" THEN "X" ELSE IF d = "y" THEN "Y" ELSE d

\* re.match(r'^[A-Za-z]$', drive_letter)
IsLetter(d) == d \in {"X", "Y", "x", "y"}

\* '..' in remote_name or '/' in remote_name or '\\' in remote_name
HasPathChars(rn) == rn \in {"a..b", "a/b"}

CacheModes == {"off", "minimal", "writes", "full"}

\* re.match(r'^\d+[KMGT]?$', vfs_cache_max_size, re.IGNORECASE)
IsCacheSize(v) == v \in {"10G", "512M"}

\* __post_init__ raises no ValueError
MountValid(rn, d, cache, size) ==
    /\ IsLetter(d)
    /\ rn # ""
    /\ ~HasPathChars(rn)
    /\ cache \in CacheModes
    /\ IsCacheSize(size)

\* the keyword options of a Mount
MountOptions ==
    {[remote_path |-> "", auto_mount |-> FALSE, read_only |-> FALSE,
      cache_mode |-> "off", vfs_cache_max_size |-> "10G"],
     [remote_path |-> "docs", auto_mount |-> TRUE, read_only |-> TRUE,
      cache_mode |-> "full", vfs_cache_max_size |-> "512M"]}

DefaultOptions ==
    [remote_path |-> "", auto_mount |-> FALSE, read_only |-> FALSE,
     cache_mode |-> "off", vfs_cache_max_size |-> "10G"]

\* Mount(...) once __post_init__ has accepted it: the drive letter is upper-cased
NewMount(rn, d, status, opt, src) ==
    [remote_name |-> rn, remote_path |-> opt.remote_path, drive_letter |-> Upper(d),
     status |-> status, auto_mount |-> opt.auto_mount, read_only |-> opt.read_only,
     cache_mode |-> opt.cache_mode, vfs_cache_max_size |-> opt.vfs_cache_max_size,
     process_id |-> None, error_message |-> None, source |-> src]

\* MountStatus(...).value
StatusValue(st) ==
    CASE st = "UNMOUNTED" -> "unmounted"
      [] st = "MOUNTING"  -> "mounting"
      [] st = "MOUNTED"   -> "mounted"
      [] st = "ERROR"     -> "error"

\* MountStatus(value), UNMOUNTED when the value names no status
StatusOfValue(v) ==
    CASE v = "mounting" -> "MOUNTING"
      [] v = "mounted"  -> "MOUNTED"
      [] v = "error"    -> "ERROR"
      [] OTHER          -> "UNMOUNTED"

ToDict_Discovered(m) ==
    Some([remote_name |-> m.remote_name, remote_path |-> m.remote_path,
          drive_letter |-> m.drive_letter, status |-> StatusValue(m.status),
          auto_mount |-> m.auto_mount, read_only |-> m.read_only,
          cache_mode |-> m.cache_mode, vfs_cache_max_size |-> m.vfs_cache_max_size,
          process_id |-> m.process_id, error_message |-> m.error_message,
          source |-> m.source])

\* to_dict: None for a discovered mount, the JSON object otherwise
ToDict(m) ==
    IF m.source = "discovered" THEN None
    ELSE Some([remote_name |-> m.remote_name, remote_path |-> m.remote_path,
               drive_letter |-> m.drive_letter, status |-> StatusValue(m.status),
               auto_mount |-> m.auto_mount, read_only |-> m.read_only,
               cache_mode |-> m.cache_mode, vfs_cache_max_size |-> m.vfs_cache_max_size,
               process_id |-> m.process_id, error_message |-> m.error_message,
               source |-> m.source])

\* from_dict on an object that has every key: None when the constructor raises
FromDict(d) ==
    IF ~MountValid(d.remote_name, d.drive_letter, d.cache_mode, d.vfs_cache_max_size)
    THEN None
    ELSE Some([NewMount(d.remote_name, d.drive_letter, StatusOfValue(d.status),
                        [remote_path |-> d.remote_path, auto_mount |-> d.auto_mount,
                         read_only |-> d.read_only, cache_mode |-> d.cache_mode,
                         vfs_cache_max_size |-> d.vfs_cache_max_size],
                        d.source)
               EXCEPT !.process_id = d.process_id,
                      !.error_message = d.error_message])

\* f"unknown_{drive_letter}"
PlaceholderName(d) ==
    CASE d = "X" -> "unknown_X"
      [] d = "Y" -> "unknown_Y"
      [] d = "x" -> "unknown_x"
      [] d = "y" -> "unknown_y"

\* from_process_info: None when the constructor raises ValueError
FromProcessInfo(d, pid, rn) ==
    LET name == IF rn = "" THEN PlaceholderName(d) ELSE rn IN
    IF ~MountValid(name, d, "off", "10G") THEN None
    ELSE Some([NewMount(name, d, "MOUNTED", DefaultOptions, "discovered")
               EXCEPT !.process_id = Some(pid)])

\* check_drive_exists
CheckDriveExists(os, D, m) == os = "nt" /\ m.drive_letter \in D

\* the is_mounted property
IsMounted(os, D, m) ==
    IF os = "nt" THEN CheckDriveExists(os, D, m) ELSE m.status = "MOUNTED"

-----------------------------------------------------------------------------
(* MountManager: discovery and reconciliation *)

\* one line of the process query, parsed: (drive_letter, pid, remote_name)
Triple(d, pid, rn) == [drive |-> d, pid |-> pid, remote |-> rn]

\* what _query_rclone_mount_processes can hand over: the parser upper-cases
\* the drive and takes the remote name [A-Za-z0-9_][A-Za-z0-9_.@-]* as written
ProcTriples == {Triple("X", 1, "ext"), Triple("Y", 2, ""), Triple("Y", 2, "a..b")}

ProcessLists == UNION {[1..n -> ProcTriples] : n \in 0..MaxProcs}

ConfigKeys(M)     == {k \in DOMAIN M : M[k].source = "config"}
DiscoveredKeys(M) == {k \in DOMAIN M : M[k].source = "discovered"}
ConfigDrives(M)   == {M[k].drive_letter : k \in ConfigKeys(M)}

\* f"_discovered_{mount.drive_letter}"
DiscKey(d) == IF d = "X" THEN "_discovered_X" ELSE "_discovered_Y"

Discovery(raised, found) == [raised |-> raised, found |-> found]

RECURSIVE DiscoverFrom(_, _)
\* the loop of discover_system_mounts over the process list P: it ends with
\* the list of mounts, or with the ValueError of the first triple that
\* Mount refuses
DiscoverFrom(P, cfg) ==
    IF P = <<>> THEN Discovery(FALSE, <<>>)
    ELSE LET t == Head(P)
             m == FromProcessInfo(t.drive, t.pid, t.remote)
             rest == DiscoverFrom(Tail(P), cfg)
         IN  IF t.drive \in cfg THEN rest
             ELSE IF m = None \/ rest.raised THEN Discovery(TRUE, <<>>)
             ELSE Discovery(FALSE, <<m[1]>> \o rest.found)

\* discover_system_mounts
DiscoverSystemMounts(M, os, P) ==
    IF os # "nt" THEN Discovery(FALSE, <<>>) ELSE DiscoverFrom(P, ConfigDrives(M))

ReconcileMount_KeepPid(m, exists) ==
    IF exists = (m.status = "MOUNTED") THEN m
    ELSE IF exists THEN [m EXCEPT !.status = "MOUNTED"]
    ELSE [m EXCEPT !.status = "UNMOUNTED"]

\* refresh_mount_status, the body of its loop for one mount
ReconcileMount(m, exists) ==
    IF exists = (m.status = "MOUNTED") THEN m
    ELSE IF exists THEN [m EXCEPT !.status = "MOUNTED"]
    ELSE [m EXCEPT !.status = "UNMOUNTED", !.process_id = None]

RECURSIVE PutDiscovered(_, _)
\* self.mounts[f"_discovered_{drive}"] = mount, for each discovered mount in turn
PutDiscovered(M, found) ==
    IF found = <<>> THEN M
    ELSE PutDiscovered(Put(M, DiscKey(Head(found).drive_letter), Head(found)), Tail(found))

DropDiscovered(M) == [k \in ConfigKeys(M) |-> M[k]]

\* the registry after refresh_mount_status: the reconciled mounts, and the
\* discovered entries replaced unless discovery raised
Refreshed(M, os, D, P) ==
    LET R   == [k \in DOMAIN M |-> ReconcileMount(M[k], CheckDriveExists(os, D, M[k]))]
        dsc == DiscoverSystemMounts(R, os, P)
    IN  IF dsc.raised THEN R ELSE PutDiscovered(DropDiscovered(R), dsc.found)

\* nothing was queried
NoScan == [procs |-> <<>>, raised |-> FALSE, found |-> <<>>, cleared |-> {}]

SaveMountsOf_All(M) ==
    Some({d[1] : d \in {ToDict_Discovered(M[k]) : k \in DOMAIN M}})

\* save_mounts: the serialized config mounts, the None entries filtered out
SaveMountsOf(M) ==
    Some({d[1] : d \in {ToDict(M[k]) : k \in ConfigKeys(M)} \ {None}})

\* what a mount-manager step leaves to the observer
MountObsCalls(op, evs, sc, cs) ==
    /\ lastOp' = op
    /\ events' = evs
    /\ scan' = sc
    /\ calls' = cs
    /\ left' = {}
    /\ UNCHANGED <<schedVars, syncVars, dueCount, winTicks, os_name, unitVars>>

MountObs(op, evs, sc) == MountObsCalls(op, evs, sc, <<>>)

\* refresh_mount_status, with P the answer of the process query
RefreshMountStatus(P) ==
    /\ os_name # "nt" => P = <<>>
    /\ LET R   == [k \in DOMAIN mounts |->
                     ReconcileMount(mounts[k], CheckDriveExists(os_name, drives, mounts[k]))]
           dsc == DiscoverSystemMounts(R, os_name, P)
       IN  /\ mounts' = Refreshed(mounts, os_name, drives, P)
           /\ MountObs(Op("refresh_mount_status", "", IF dsc.raised THEN "raised" ELSE ""),
                       <<>>,
                       [procs |-> P, raised |-> dsc.raised, found |-> dsc.found,
                        cleared |-> {k \in DOMAIN mounts :
                                       mounts[k].process_id # None /\ R[k].process_id = None}])
    /\ UNCHANGED <<drives, procs, mount_workers, mount_threads, mount_queue, mounts_file>>

\* save_mounts
SaveMounts ==
    /\ mounts_file' = SaveMountsOf(mounts)
    /\ MountObs(Op("save_mounts", "", ""), <<>>, NoScan)
    /\ UNCHANGED <<drives, procs, mounts, mount_workers, mount_threads, mount_queue>>

-----------------------------------------------------------------------------
(* MountManager: the handlers that run on the event-loop thread *)

MountNames == {"a"}

MountedOk      == "Mounted successfully"
MountLaunchErr == "launch error"          \* str(e) of the exception Popen raised

\* MountWorker(rclone, mount): the thread holds the Mount object it was given;
\* attached says that this object is still the one in the registry
NewMountThread(name, d) ==
    [name |-> name, attached |-> TRUE, pc |-> "start", process |-> None, drive |-> d]

\* a MountWorker object lives while its thread runs or the registry refers to it
Collect(W, TH) == [w \in {v \in DOMAIN TH : TH[v].pc = "start" \/ v \in Range(W)} |-> TH[w]]

\* the registry entry of name is replaced or deleted: the workers of the old
\* Mount object keep that object
Detach(TH, name) ==
    [w \in DOMAIN TH |-> IF TH[w].name = name THEN [TH[w] EXCEPT !.attached = FALSE]
                         ELSE TH[w]]

\* the process does not end within the waits that follow terminate() and kill()
\* or a forced kill
KillOutcomes == {"dies", "survives"}

\* the liveness polls of one grace window (timeout * 10 in the code)
MaxPolls == 2

\* where a termination attempt raises: at the graceful stop or at the forced kill
Raises == {"none", "graceful", "forced"}

\* the exact command-line query of PowerShell runs, or neither PowerShell path
\* can be run
Queries == {"runs", "unavailable"}

\* how the OS and the processes answer one unmount: kill as above, gone the
\* poll that first finds a process gone after the graceful stop (0: none)
Env(kill, gone, raises, query) ==
    [kill |-> kill, gone |-> gone, raises |-> raises, query |-> query]

Envs == {Env(k, g, r, q) : k \in KillOutcomes, g \in 0..MaxPolls, r \in Raises, q \in Queries}

\* the result of a helper that ends processes: what it returns, what it
\* called, the processes that are left
Killed(ret, cs, PR) == [ret |-> ret, calls |-> cs, procs |-> PR]

AlivePolls(n) == [i \in 1..n |-> "poll:alive"]

\* the forced kill follows once the polls of the grace window are over
ForcedAfter_FirstPoll(n) == 1

ForcedAfter(n) == n

\* _terminate_process_gracefully(pid).  A process that is gone already makes
\* os.kill raise ProcessLookupError; taskkill only fails, and the first poll
\* finds it gone.
TerminateProcessGracefully(pid, env, PR) ==
    LET live   == pid \in DOMAIN PR
        raises == IF live THEN env.raises ELSE IF os_name = "nt" THEN "none" ELSE "graceful"
        gone   == IF live THEN env.gone ELSE 1
        window == ForcedAfter(MaxPolls)
    IN  IF raises = "graceful"
        THEN Killed(FALSE, <<"graceful:raises", "return False">>, PR)
        ELSE IF gone > 0 /\ gone <= window
        THEN Killed(TRUE, <<"graceful">> \o AlivePolls(gone - 1) \o <<"poll:gone", "return True">>,
                    Del(PR, pid))
        ELSE IF raises = "forced"
        THEN Killed(FALSE, <<"graceful">> \o AlivePolls(window)
                           \o <<"forced:raises", "return False">>, PR)
        ELSE Killed(TRUE, <<"graceful">> \o AlivePolls(window) \o <<"forced", "return True">>,
                    IF env.kill = "dies" THEN Del(PR, pid) ELSE PR)

\* for pid in pids: _terminate_process_gracefully(pid)
RECURSIVE TerminateEach(_, _, _)
TerminateEach(S, env, K) ==
    IF S = {} THEN K
    ELSE LET pid == CHOOSE p \in S : \A q \in S : p <= q
             T   == TerminateProcessGracefully(pid, env, K.procs)
         IN  TerminateEach(S \ {pid}, env, Killed(TRUE, K.calls \o T.calls, T.procs))

\* the exact query finds nothing: _kill_by_powershell returns False
QueryFindsNone(pids) == pids = {}

\* _kill_by_powershell: the processes whose command line names the drive
KillByPowershell(d, env, PR) ==
    LET pids == {p \in DOMAIN PR : PR[p] = d} IN
      IF env.query = "unavailable" THEN Killed(FALSE, <<"query:unavailable">>, PR)
      ELSE IF QueryFindsNone(pids) THEN Killed(FALSE, <<"query:ran">>, PR)
      ELSE TerminateEach(pids, env, Killed(TRUE, <<"query:ran">>, PR))

\* _kill_by_tasklist: taskkill /F /IM rclone.exe when the drive path exists
\* and tasklist shows an rclone process
KillByTasklist(d, env, PR) ==
    IF d \notin drives THEN Killed(FALSE, <<"path:missing">>, PR)
    ELSE IF DOMAIN PR = {} THEN Killed(FALSE, <<"path:exists", "tasklist">>, PR)
    ELSE Killed(TRUE, <<"path:exists", "tasklist", "taskkill /IM">>,
                IF env.kill = "dies" THEN Empty ELSE PR)

\* _kill_rclone_mount_by_drive
KillRcloneMountByDrive(d, env, PR) ==
    IF os_name # "nt" THEN Killed(FALSE, <<"kill_by_drive">>, PR)
    ELSE LET a == KillByPowershell(d, env, PR) IN
           IF a.ret THEN Killed(TRUE, <<"kill_by_drive">> \o a.calls, a.procs)
           ELSE LET b == KillByTasklist(d, env, a.procs) IN
                  Killed(b.ret, <<"kill_by_drive">> \o a.calls \o b.calls, b.procs)

Unmounted(raised, M, W, TH, PR, evs, cs) ==
    [raised |-> raised, mounts |-> M, workers |-> W, threads |-> TH, procs |-> PR,
     events |-> evs, calls |-> cs]

\* unmount: mount.status = UNMOUNTED after the pid was cleared
UnmountStatus(m) == [m EXCEPT !.status = "UNMOUNTED", !.process_id = None]

UsesDriveSearch_Always(hasW, hasPid) == TRUE

\* if not terminated: neither the worker nor the pid branch was taken
UsesDriveSearch(hasW, hasPid) == ~hasW /\ ~hasPid

\* unmount(name) on a known mount.  worker.stop() lets subprocess.TimeoutExpired
\* through when the worker's process outlives terminate() and kill();
\* _terminate_process_gracefully and the drive-letter search raise nothing.
UnmountIn(S, name, env) ==
    LET m    == S.mounts[name]
        hasW == name \in DOMAIN S.workers
        wp   == IF hasW THEN S.threads[S.workers[name]].process ELSE None
        W1   == Del(S.workers, name)
        TH1  == Collect(W1, IF hasW
                            THEN [S.threads EXCEPT ![S.workers[name]].process = None]
                            ELSE S.threads)
        stopAlive  == IF wp = None THEN FALSE ELSE wp[1] \in DOMAIN S.procs
        P1   == IF stopAlive /\ env.kill = "dies" THEN Del(S.procs, wp[1]) ELSE S.procs
        c1   == IF hasW THEN <<"worker.stop">> ELSE <<>>
        hasPid == m.process_id # None
        T    == IF hasPid THEN TerminateProcessGracefully(m.process_id[1], env, P1)
                ELSE Killed(FALSE, <<>>, P1)
        K    == IF UsesDriveSearch(hasW, hasPid)
                THEN KillRcloneMountByDrive(m.drive_letter, env, T.procs)
                ELSE Killed(FALSE, <<>>, T.procs)
    IN  IF stopAlive /\ env.kill = "survives"
        THEN Unmounted(TRUE, S.mounts, W1, TH1, S.procs, <<>>, c1)
        ELSE Unmounted(FALSE, [S.mounts EXCEPT ![name] = UnmountStatus(m)], W1, TH1, K.procs,
                       <<Ev("mountStatusChanged", name, "UNMOUNTED")>>,
                       c1 \o T.calls \o K.calls)

\* the registry, the workers and the processes a handler starts from
Registry ==
    Unmounted(FALSE, mounts, mount_workers, mount_threads, procs, <<>>, <<>>)

UnmountOn(name, env) == UnmountIn(Registry, name, env)

\* string.ascii_uppercase, as far as the model has drive letters
Alphabet == <<"X", "Y">>

GetAvailableDrives_AllLetters(os, D, M) == DriveLetters

\* get_available_drives, the list as the set of its letters
GetAvailableDrives(os, D, M) ==
    IF os # "nt" THEN {}
    ELSE LET used == D \cup {M[k].drive_letter : k \in {j \in DOMAIN M : IsMounted(os, D, M[j])}}
         IN  {Alphabet[i] : i \in {j \in DOMAIN Alphabet : Alphabet[j] \notin used}}

\* available[0]
FirstAvailable(A) ==
    Alphabet[CHOOSE i \in DOMAIN Alphabet :
                /\ Alphabet[i] \in A
                /\ \A j \in DOMAIN Alphabet : Alphabet[j] \in A => i <= j]

\* add_mount with a drive letter given, save_mounts included
AddMount(name, d, opt) ==
    /\ MountValid(name, d, opt.cache_mode, opt.vfs_cache_max_size)
    /\ mounts' = Put(mounts, name, NewMount(name, d, "UNMOUNTED", opt, "config"))
    /\ mount_threads' = Detach(mount_threads, name)
    /\ mounts_file' = SaveMountsOf(mounts')
    /\ MountObs(Op("add_mount", name, ""), <<>>, NoScan)
    /\ UNCHANGED <<drives, procs, mount_workers, mount_queue>>

\* add_mount without drive letter: the first available one is taken, or
\* ValueError("No available drive letters") is raised
AddMountAuto(name, opt) ==
    LET A == GetAvailableDrives(os_name, drives, mounts) IN
      IF A = {}
      THEN /\ MountObs(Op("add_mount", name, "raised"), <<>>, NoScan)
           /\ UNCHANGED <<drives, procs, mounts, mount_workers, mount_threads, mount_queue,
                          mounts_file>>
      ELSE /\ MountValid(name, FirstAvailable(A), opt.cache_mode, opt.vfs_cache_max_size)
           /\ mounts' = Put(mounts, name,
                            NewMount(name, FirstAvailable(A), "UNMOUNTED", opt, "config"))
           /\ mount_threads' = Detach(mount_threads, name)
           /\ mounts_file' = SaveMountsOf(mounts')
           /\ MountObs(Op("add_mount", name, "auto"), <<>>, NoScan)
           /\ UNCHANGED <<drives, procs, mount_workers, mount_queue>>

\* remove_mount, its unmount and save_mounts included
RemoveMount(name, env) ==
    /\ name \in DOMAIN mounts
    /\ LET U == IF IsMounted(os_name, drives, mounts[name]) THEN UnmountOn(name, env)
                ELSE Unmounted(FALSE, mounts, mount_workers, mount_threads, procs, <<>>, <<>>)
       IN  /\ mounts' = IF U.raised THEN U.mounts ELSE Del(U.mounts, name)
           /\ mount_workers' = U.workers
           /\ mount_threads' = IF U.raised THEN U.threads ELSE Detach(U.threads, name)
           /\ procs' = U.procs
           /\ mounts_file' = IF U.raised THEN mounts_file ELSE SaveMountsOf(mounts')
           /\ MountObsCalls(Op("remove_mount", name, IF U.raised THEN "raised" ELSE ""),
                            U.events, NoScan, U.calls)
    /\ UNCHANGED <<drives, mount_queue>>

\* a handle for a new MountWorker (0 stands for none left in the model)
FreeMountHandle(TH) ==
    IF WorkerIds \ DOMAIN TH = {} THEN 0
    ELSE CHOOSE w \in WorkerIds \ DOMAIN TH : \A v \in WorkerIds \ DOMAIN TH : w <= v

MountStarts_Always(os, D, M, name) == name \in DOMAIN M

\* mount(name) goes on to start a worker
MountStarts(os, D, M, name) ==
    IF name \notin DOMAIN M THEN FALSE ELSE ~IsMounted(os, D, M[name])

\* mount
Mount(name) ==
    /\ IF MountStarts(os_name, drives, mounts, name)
       THEN \E w \in {FreeMountHandle(mount_threads)} \ {0} :
              /\ mounts' = [mounts EXCEPT ![name].status = "MOUNTING"]
              /\ mount_workers' = Put(mount_workers, name, w)
              /\ mount_threads' =
                    Collect(mount_workers',
                            Put(mount_threads, w, NewMountThread(name, mounts[name].drive_letter)))
              /\ MountObs(Op("mount", name, "True"),
                          <<Ev("mountStatusChanged", name, "MOUNTING")>>, NoScan)
       ELSE /\ MountObs(Op("mount", name, IF name \in DOMAIN mounts THEN "True" ELSE "False"),
                        <<>>, NoScan)
            /\ UNCHANGED <<mounts, mount_workers, mount_threads>>
    /\ UNCHANGED <<drives, procs, mount_queue, mounts_file>>

\* unmount
Unmount(name, env) ==
    /\ IF name \in DOMAIN mounts
       THEN LET U == UnmountOn(name, env) IN
              /\ mounts' = U.mounts
              /\ mount_workers' = U.workers
              /\ mount_threads' = U.threads
              /\ procs' = U.procs
              /\ MountObsCalls(Op("unmount", name, IF U.raised THEN "raised" ELSE "True"),
                               U.events, NoScan, U.calls)
       ELSE /\ MountObs(Op("unmount", name, "False"), <<>>, NoScan)
            /\ UNCHANGED <<mounts, mount_workers, mount_threads, procs>>
    /\ UNCHANGED <<drives, mount_queue, mounts_file>>

\* the orders a dict can hold the keys S in
Orders(S) ==
    {o \in [1..Cardinality(S) -> S] : \A i, j \in 1..Cardinality(S) : i # j => o[i] # o[j]}

\* for remote_name in remote_names: self.unmount(remote_name), nothing caught
RECURSIVE UnmountEach(_, _, _)
UnmountEach(ord, env, U) ==
    IF ord = <<>> \/ U.raised THEN U
    ELSE LET V == UnmountIn(U, Head(ord), env) IN
           UnmountEach(Tail(ord), env,
                       [V EXCEPT !.events = U.events \o @, !.calls = U.calls \o @])

\* unmount_all, the keys of the registry in the order ord
UnmountAll(ord, env) ==
    /\ LET U == UnmountEach(ord, env, Registry) IN
         /\ mounts' = U.mounts
         /\ mount_workers' = U.workers
         /\ mount_threads' = U.threads
         /\ procs' = U.procs
         /\ MountObsCalls(Op("unmount_all", "", IF U.raised THEN "raised" ELSE ""),
                          U.events, NoScan, U.calls)
    /\ UNCHANGED <<drives, mount_queue, mounts_file>>

\* [m for m in self.mounts.values() if m.auto_mount and not m.is_mounted]
AutoMounts(os, D, M) == {k \in DOMAIN M : M[k].auto_mount /\ ~IsMounted(os, D, M[k])}

\* self.mount(mount.remote_name) inside the try of the loop
RECURSIVE MountEach(_, _)
MountEach(ord, U) ==
    IF ord = <<>> THEN U
    ELSE LET name == U.mounts[Head(ord)].remote_name
             w    == FreeMountHandle(U.threads)
             W1   == Put(U.workers, name, w) IN
           MountEach(Tail(ord),
                     IF MountStarts(os_name, drives, U.mounts, name)
                     THEN [U EXCEPT !.mounts = [@ EXCEPT ![name].status = "MOUNTING"],
                                    !.workers = W1,
                                    !.threads = Collect(W1,
                                        Put(@, w, NewMountThread(name, U.mounts[name].drive_letter))),
                                    !.events = Append(@, Ev("mountStatusChanged", name, "MOUNTING"))]
                     ELSE U)

\* auto_mount_all, the eligible mounts in the order ord
AutoMountAll(ord) ==
    /\ Len(ord) <= Cardinality(WorkerIds \ DOMAIN mount_threads)
    /\ LET U == MountEach(ord, Registry) IN
         /\ mounts' = U.mounts
         /\ mount_workers' = U.workers
         /\ mount_threads' = U.threads
         /\ MountObs(Op("auto_mount_all", "", ""), U.events, NoScan)
    /\ UNCHANGED <<drives, procs, mount_queue, mounts_file>>

\* _on_mount_started
OnMountStarted(name) ==
    /\ mounts' = IF name \in DOMAIN mounts
                 THEN [mounts EXCEPT ![name].status = "MOUNTING"] ELSE mounts
    /\ MountObs(Op("_on_mount_started", name, ""),
                IF name \in DOMAIN mounts
                THEN <<Ev("mountStatusChanged", name, "MOUNTING")>> ELSE <<>>, NoScan)

\* _on_mount_finished: what it writes to the mount
MountFinished(m, ok, msg) ==
    IF ok THEN [m EXCEPT !.status = "MOUNTED", !.error_message = None]
    ELSE [m EXCEPT !.status = "ERROR", !.error_message = Some(msg)]

\* _on_mount_finished
OnMountFinished(name, ok, msg) ==
    /\ mounts' = IF name \in DOMAIN mounts
                 THEN [mounts EXCEPT ![name] = MountFinished(@, ok, msg)] ELSE mounts
    /\ MountObs(Op("_on_mount_finished", name, msg),
                IF name \notin DOMAIN mounts THEN <<>>
                ELSE (IF ok THEN <<>> ELSE <<Ev("mountError", name, msg)>>)
                     \o <<Ev("mountStatusChanged", name, IF ok THEN "MOUNTED" ELSE "ERROR")>>,
                NoScan)

\* the event loop delivers the oldest queued MountWorker signal
MountDeliver ==
    /\ mount_queue # <<>>
    /\ LET e == Head(mount_queue) IN
         IF e.sig = "started" THEN OnMountStarted(e.id)
         ELSE OnMountFinished(e.id, e.ok, e.msg)
    /\ mount_queue' = Tail(mount_queue)
    /\ UNCHANGED <<drives, procs, mount_workers, mount_threads, mounts_file>>

-----------------------------------------------------------------------------
(* MountWorker.run, and the OS *)

\* Popen(...).pid: no live process has it (0 stands for none left in the model)
FreePid(PR) ==
    IF Pids \ DOMAIN PR = {} THEN 0
    ELSE CHOOSE p \in Pids \ DOMAIN PR : \A q \in Pids \ DOMAIN PR : p <= q

\* self.mount.process_id = pid reaches the registry's Mount
WorkerStoresPid(th) == th.attached

\* MountWorker.run: started is emitted, Popen starts the process or raises,
\* the pid is written to the worker's Mount, finished is emitted
MountWorkerRun(w, ok) ==
    /\ w \in DOMAIN mount_threads
    /\ mount_threads[w].pc = "start"
    /\ Len(mount_queue) + 2 <= MaxQueue
    /\ LET th == mount_threads[w] IN
         IF ok
         THEN \E pid \in {FreePid(procs)} \ {0} :
                /\ procs' = Put(procs, pid, th.drive)
                /\ mounts' = IF WorkerStoresPid(th)
                             THEN [mounts EXCEPT ![th.name].process_id = Some(pid)]
                             ELSE mounts
                /\ mount_threads' =
                      Collect(mount_workers,
                              [mount_threads EXCEPT ![w].pc = "done", ![w].process = Some(pid)])
                /\ mount_queue' = mount_queue \o <<Sig("started", th.name, TRUE, ""),
                                                   Sig("finished", th.name, TRUE, MountedOk)>>
                /\ MountObs(Op("mount_worker", th.name, "launched"), <<>>, NoScan)
         ELSE /\ mount_threads' = Collect(mount_workers, [mount_threads EXCEPT ![w].pc = "done"])
              /\ mount_queue' = mount_queue \o <<Sig("started", th.name, TRUE, ""),
                                                 Sig("finished", th.name, FALSE, MountLaunchErr)>>
              /\ MountObs(Op("mount_worker", th.name, "failed"), <<>>, NoScan)
              /\ UNCHANGED <<procs, mounts>>
    /\ UNCHANGED <<drives, mount_workers, mounts_file>>

\* a drive appears or disappears (Windows)
DriveChange(d) ==
    /\ os_name = "nt"
    /\ drives' = IF d \in drives THEN drives \ {d} ELSE drives \cup {d}
    /\ MountObs(Op("os", d, ""), <<>>, NoScan)
    /\ UNCHANGED <<procs, mounts, mount_workers, mount_threads, mount_queue, mounts_file>>

\* an rclone mount process is started outside the application
ProcessStart(pid, d) ==
    /\ pid \notin DOMAIN procs
    /\ procs' = Put(procs, pid, d)
    /\ MountObs(Op("os", d, "start"), <<>>, NoScan)
    /\ UNCHANGED <<drives, mounts, mount_workers, mount_threads, mount_queue, mounts_file>>

\* an rclone mount process ends by itself
ProcessExit(pid) ==
    /\ pid \in DOMAIN procs
    /\ procs' = Del(procs, pid)
    /\ MountObs(Op("os", "", "exit"), <<>>, NoScan)
    /\ UNCHANGED <<drives, mounts, mount_workers, mount_threads, mount_queue, mounts_file>>

-----------------------------------------------------------------------------

(* The mutexes of the three managers, one step of a handler at a time *)

Managers == {"MountManager", "SyncManager", "SyncScheduler"}
Threads == {"gui", "worker"}

\* a step of a handler: taking or leaving the manager's self._lock, a mutation
\* of registry state, or a call that launches, waits on, queries or ends a
\* subprocess
Acquire == [kind |-> "acquire", what |-> "_lock"]
Release == [kind |-> "release", what |-> "_lock"]
Write(what) == [kind |-> "write", what |-> what]
Subprocess(what) == [kind |-> "subprocess", what |-> what]

\* the handlers of MountManager, each by the steps of its longest path
MountManagerSteps ==
    "mount" :> <<Acquire, Release, Write("mount.status"),
                 Acquire, Write("workers[remote_name]"), Release>>
    @@ "unmount" :> <<Acquire, Release,
                      Acquire, Write("workers.pop"), Release,
                      Subprocess("worker.stop"),
                      Subprocess("_terminate_process_gracefully"),
                      Write("mount.process_id"),
                      Subprocess("_kill_rclone_mount_by_drive"),
                      Write("mount.status")>>
    @@ "add_mount" :> <<Acquire, Write("mounts[remote_name]"), Release>>
    @@ "remove_mount" :> <<Acquire, Release, Acquire, Write("del mounts[remote_name]"), Release>>
    @@ "refresh_mount_status" :> <<Acquire, Release,
                                   Acquire, Write("mount.status"), Write("mount.process_id"), Release,
                                   Subprocess("discover_system_mounts"),
                                   Acquire, Write("del mounts[key]"), Write("mounts[key]"), Release>>
    @@ "_on_mount_started" :> <<Acquire, Release, Write("mount.status")>>
    @@ "_on_mount_finished" :> <<Acquire, Release, Write("mount.status")>>

\* MountWorker.run, on its own thread
MountWorkerSteps ==
    "run" :> <<Subprocess("Popen"), Write("mount.process_id")>>

\* the handlers of SyncManager
SyncManagerSteps ==
    "add_task" :> <<Acquire, Write("tasks[task.id]"), Release>>
    @@ "remove_task" :> <<Acquire, Release,
                          Acquire, Write("workers.pop"), Release,
                          Subprocess("worker.cancel"),
                          Acquire, Write("del tasks[task_id]"), Release>>
    @@ "run_task" :> <<Acquire, Release, Write("task.status"),
                       Acquire, Write("workers[task_id]"), Release>>
    @@ "cancel_task" :> <<Acquire, Write("workers.pop"), Release,
                          Subprocess("worker.cancel"),
                          Acquire, Release, Write("task.status")>>
    @@ "_on_task_started" :> <<Write("task.status")>>
    @@ "_on_task_finished" :> <<Acquire, Release, Write("task.status"),
                                Acquire, Write("workers.pop"), Release>>

\* SyncWorker.run, on its own thread
SyncWorkerSteps ==
    "run" :> <<Subprocess("Popen"), Subprocess("readline"), Subprocess("wait")>>

\* the handlers of SyncScheduler
SchedulerSteps ==
    "add_task" :> <<Acquire, Write("_scheduled_tasks[task_id]"),
                    Write("_last_run_times[task_id]"), Release>>
    @@ "remove_task" :> <<Acquire, Write("del _scheduled_tasks[task_id]"),
                          Write("del _last_run_times[task_id]"),
                          Write("_triggered_tasks.discard"), Release>>
    @@ "update_last_run" :> <<Acquire, Write("_last_run_times[task_id]"),
                              Write("_triggered_tasks.discard"), Release>>
    @@ "_on_tick" :> <<Acquire, Write("_triggered_tasks.clear"), Write("_last_check_time"), Release,
                       Acquire, Release,
                       Acquire, Write("_triggered_tasks.add"), Release,
                       Acquire, Write("_last_run_times[task_id]"), Release>>
    @@ "clear" :> <<Acquire, Write("_scheduled_tasks.clear"), Write("_last_run_times.clear"),
                    Write("_triggered_tasks.clear"), Write("_last_check_time"), Release>>

\* what thread th may run of manager m
StepsOf(th, m) ==
    IF th = "gui"
    THEN (IF m = "MountManager" THEN MountManagerSteps
          ELSE IF m = "SyncManager" THEN SyncManagerSteps ELSE SchedulerSteps)
    ELSE (IF m = "MountManager" THEN MountWorkerSteps
          ELSE IF m = "SyncManager" THEN SyncWorkerSteps ELSE Empty)

\* the managers' registries are left as they are
LockFrame == UNCHANGED <<schedVars, syncVars, mountVars, obsVars, timerVars, taskVars,
                parseVars, rcloneVars,
                runVars, pipeVars>>

NoStep == [thread |-> "", manager |-> "", handler |-> "", kind |-> "", what |-> "", holds |-> FALSE]

\* thread th enters handler h of manager m
Enter(th, m, h) ==
    /\ stepping[th] = None
    /\ h \in DOMAIN StepsOf(th, m)
    /\ stepping' = [stepping EXCEPT ![th] = Some([manager |-> m, handler |-> h, pc |-> 1])]
    /\ lastStep' = NoStep
    /\ UNCHANGED mutex
    /\ LockFrame

\* thread th executes the next step of the handler it is in; threading.Lock
\* blocks the thread that asks for a lock another thread holds
Step(th) ==
    /\ stepping[th] # None
    /\ LET at == stepping[th][1]
           prog == StepsOf(th, at.manager)[at.handler]
           s == prog[at.pc] IN
         /\ s.kind = "acquire" => mutex[at.manager] = None
         /\ mutex' = [mutex EXCEPT ![at.manager] =
                        IF s.kind = "acquire" THEN Some(th)
                        ELSE IF s.kind = "release" THEN None ELSE @]
         /\ stepping' = [stepping EXCEPT ![th] =
                           IF at.pc = Len(prog) THEN None ELSE Some([at EXCEPT !.pc = @ + 1])]
         /\ lastStep' = [thread |-> th, manager |-> at.manager, handler |-> at.handler,
                         kind |-> s.kind, what |-> s.what,
                         holds |-> mutex[at.manager] = Some(th)]
    /\ LockFrame

-----------------------------------------------------------------------------

(* SchedulerThread: the timer of the scheduler *)

\* datetime.now().minute
Minutes == 0 .. 59

\* the tick signal
Tick == Ev("tick", "", "")

\* the scheduler, its managers and the locks are left as they are
TimerFrame ==
    UNCHANGED <<schedVars, syncVars, mountVars, left, dueCount, winTicks, lockVars, taskVars,
                parseVars, rcloneVars,
                runVars, pipeVars>>

EmitsTick_Always(current_minute, last) == TRUE

\* _on_tick: current_minute != self._last_minute
EmitsTick(current_minute, last) == current_minute # last

\* SchedulerThread._on_tick, the slot of the timer's timeout
ThreadOnTick ==
    /\ timer_active
    /\ IF EmitsTick(minute, last_minute)
       THEN /\ last_minute' = minute
            /\ events' = <<Tick>>
            /\ fireTicks' = Bump(fireTicks)
       ELSE /\ events' = <<>>
            /\ UNCHANGED <<last_minute, fireTicks>>
    /\ fires' = Bump(fires)
    /\ observed' = Some(minute)
    /\ lastOp' = Op("SchedulerThread._on_tick", "", "")
    /\ UNCHANGED <<timer_active, minute>>
    /\ TimerFrame

\* SchedulerThread.start
ThreadStart ==
    /\ IF ~timer_active
       THEN /\ timer_active' = TRUE
            /\ last_minute' = minute
            /\ observed' = Some(minute)
            /\ events' = <<Tick>>
       ELSE /\ events' = <<>>
            /\ UNCHANGED <<timer_active, last_minute, observed>>
    /\ lastOp' = Op("SchedulerThread.start", "", IF timer_active THEN "active" ELSE "stopped")
    /\ UNCHANGED <<minute, fires, fireTicks>>
    /\ TimerFrame

\* SchedulerThread.stop
ThreadStop ==
    /\ timer_active' = FALSE
    /\ events' = <<>>
    /\ lastOp' = Op("SchedulerThread.stop", "", "")
    /\ UNCHANGED <<minute, last_minute, observed, fires, fireTicks>>
    /\ TimerFrame

\* the wall clock shows another minute
MinuteTurns(m) ==
    /\ m # minute
    /\ minute' = m
    /\ fires' = 0
    /\ fireTicks' = 0
    /\ events' = <<>>
    /\ lastOp' = Op("clock", "", "")
    /\ UNCHANGED <<timer_active, last_minute, observed>>
    /\ TimerFrame

-----------------------------------------------------------------------------

(* SyncTask: its progress, and sync_tasks.json *)

\* SyncMode(value) and SyncStatus(value): the members by their values
SyncModes == [sync |-> "SYNC", copy |-> "COPY", move |-> "MOVE", bisync |-> "BISYNC"]
SyncStatuses == [idle |-> "IDLE", running |-> "RUNNING", paused |-> "PAUSED",
                 completed |-> "COMPLETED", error |-> "ERROR"]

Max(a, b) == IF a > b THEN a ELSE b

InRange(p) == 0 <= p /\ p <= 100

\* __post_init__: the _progress a SyncTask is constructed with
PostInitProgress(p) == IF ~InRange(p) THEN Max(0, Min(100, p)) ELSE p

\* the progress setter raises ValueError on a value outside 0..100
SetterRaises(value) == ~InRange(value)

\* the _progress of a task after `task.progress = value`
SetterProgress(old, value) == IF SetterRaises(value) THEN old ELSE value

\* an entry of sync_tasks.json; progress is None when the key is absent
TaskEntry(id, mode, status, progress, scheduled, cron) ==
    [id |-> id, mode |-> mode, status |-> status, progress |-> progress,
     scheduled |-> scheduled, cron_expression |-> cron]

\* SyncTask.from_dict(data): None when it raises ValueError
TaskFromDict(data) ==
    IF data.mode \notin DOMAIN SyncModes THEN None
    ELSE IF data.status \notin DOMAIN SyncStatuses THEN None
    ELSE IF data.progress # None /\ SetterRaises(data.progress[1]) THEN None
    ELSE Some([NewSyncTask EXCEPT
                 !.mode = SyncModes[data.mode],
                 !.status = SyncStatuses[data.status],
                 !.progress = IF data.progress = None
                              THEN PostInitProgress(0)
                              ELSE SetterProgress(PostInitProgress(0), data.progress[1]),
                 !.scheduled = data.scheduled,
                 !.cron_expression = data.cron_expression])

RECURSIVE LoadEntries_StopAtInvalid(_, _)
LoadEntries_StopAtInvalid(T, data) ==
    IF data = <<>> THEN T
    ELSE LET task == TaskFromDict(Head(data)) IN
           IF task = None THEN T
           ELSE LoadEntries_StopAtInvalid(Put(T, Head(data).id, task[1]), Tail(data))

\* the loop of load_tasks over the entries of the file: an entry from_dict
\* rejects is skipped
RECURSIVE LoadEntries(_, _)
LoadEntries(T, data) ==
    IF data = <<>> THEN T
    ELSE LET task == TaskFromDict(Head(data)) IN
           LoadEntries(IF task = None THEN T ELSE Put(T, Head(data).id, task[1]),
                       Tail(data))

\* _initialize_schedules: scheduler.add_task for every scheduled task
RECURSIVE InitializeSchedules(_, _, _)
InitializeSchedules(S, T, ids) ==
    IF ids = {} THEN S
    ELSE LET id == CHOOSE x \in ids : TRUE
             task == T[id] IN
           InitializeSchedules(
               IF task.scheduled /\ task.cron_expression # ""
               THEN SchedAddTask(S, id, task.cron_expression, task.last_run) ELSE S,
               T, ids \ {id})

\* load_tasks
LoadTasks ==
    /\ IF tasks_file = None
       THEN /\ lastOp' = Op("load_tasks", "", "False")
            /\ NoSched
            /\ UNCHANGED tasks
       ELSE LET T == LoadEntries(Empty, tasks_file[1]) IN
            /\ tasks' = T
            /\ SetSched(InitializeSchedules(Sched, T, DOMAIN T))
            /\ lastOp' = Op("load_tasks", "", "True")
    /\ events' = <<>>
    /\ UNCHANGED <<workers, sync_threads, sync_queue, last_check_time, now, check_callback,
                   mountVars>>

\* what the task actions below leave as it is
TaskFrame ==
    UNCHANGED <<schedVars, workers, sync_threads, sync_queue, mountVars,
                left, dueCount, winTicks, lockVars, timerVars, parseVars, rcloneVars,
                runVars, pipeVars>>

\* sync_tasks.json is written outside the application
WriteTasksFile(data) ==
    /\ tasks_file' = Some(data)
    /\ written' = None
    /\ lastOp' = Op("os", "sync_tasks.json", "")
    /\ events' = <<>>
    /\ UNCHANGED tasks
    /\ TaskFrame

\* SyncTask(id=id, _progress=p)
ConstructTask(id, p) ==
    /\ id \notin DOMAIN tasks
    /\ tasks' = Put(tasks, id, [NewSyncTask EXCEPT !.progress = PostInitProgress(p)])
    /\ written' = Some(p)
    /\ lastOp' = Op("SyncTask", id, "")
    /\ events' = <<>>
    /\ UNCHANGED tasks_file
    /\ TaskFrame

\* task.progress = value
SetProgress(id, value) ==
    /\ id \in DOMAIN tasks
    /\ tasks' = [tasks EXCEPT ![id].progress = SetterProgress(@, value)]
    /\ written' = Some(value)
    /\ lastOp' = Op("progress.setter", id, IF SetterRaises(value) THEN "ValueError" ELSE "")
    /\ events' = <<>>
    /\ UNCHANGED tasks_file
    /\ TaskFrame

\* _on_task_progress, the slot of the worker's progress signal
OnTaskProgress(id, percentage) ==
    /\ tasks' = IF id \in DOMAIN tasks
                THEN [tasks EXCEPT ![id].progress = SetterProgress(@, percentage)]
                ELSE tasks
    /\ events' = IF id \in DOMAIN tasks /\ ~SetterRaises(percentage)
                 THEN <<Ev("taskProgress", id, ToString(percentage))>> ELSE <<>>
    /\ written' = Some(percentage)
    /\ lastOp' = Op("_on_task_progress", id,
                    IF id \in DOMAIN tasks /\ SetterRaises(percentage) THEN "ValueError" ELSE "")
    /\ UNCHANGED tasks_file
    /\ TaskFrame

-----------------------------------------------------------------------------

(* _parse_rclone_mount_cmdline: a command line is a sequence of characters *)

LowerLetters == {"a", "b", "d", "m", "n", "o", "r", "t", "u", "x", "y"}
UpperLetters == {"M", "X", "Y"}
\* [A-Z] under re.IGNORECASE
AsciiLetters == LowerLetters \cup UpperLetters
\* \w, and [A-Za-z0-9_]
WordChars == AsciiLetters \cup {"1", "_"}
\* [A-Za-z0-9_.@\-]
NameChars == WordChars \cup {".", "@", "-"}
\* \s
Blanks == {" ", "\t"}
\* \S
NonBlanks == NameChars \cup {":", "/", "\""}

\* the case-insensitive comparison of re.IGNORECASE
CharLower(c) ==
    CASE c = "M" -> "m" [] c = "X" -> "x" [] c = "Y" -> "y" [] OTHER -> c

CharUpper_Identity(c) == c

\* str.upper() on one character
CharUpper(c) ==
    CASE c = "a" -> "A" [] c = "b" -> "B" [] c = "d" -> "D" [] c = "m" -> "M"
      [] c = "n" -> "N" [] c = "o" -> "O" [] c = "r" -> "R" [] c = "t" -> "T"
      [] c = "u" -> "U" [] c = "x" -> "X" [] c = "y" -> "Y" [] OTHER -> c

\* the first position from i on whose character is not in class: where a
\* greedy class* stops
RECURSIVE SkipWhile(_, _, _)
SkipWhile(s, i, class) ==
    IF i <= Len(s) THEN (IF s[i] \in class THEN SkipWhile(s, i + 1, class) ELSE i) ELSE i

At(s, i, class) == IF i >= 1 /\ i <= Len(s) THEN s[i] \in class ELSE FALSE

\* the pattern matched with its start at position i: None, or the two groups
\*   \bmount\s+([A-Za-z0-9_][A-Za-z0-9_.@\-]*):\S*\s+([A-Z]):(?:\s|$)
MatchAt(s, i) ==
    LET b == i + 5
        k == SkipWhile(s, b, Blanks)
        e == SkipWhile(s, k, NameChars)
        p == SkipWhile(s, e + 1, NonBlanks)
        q == SkipWhile(s, p, Blanks) IN
      IF /\ i + 4 <= Len(s)
         /\ ~At(s, i - 1, WordChars)
         /\ [j \in 1 .. 5 |-> CharLower(s[i + j - 1])] = <<"m", "o", "u", "n", "t">>
         /\ k > b
         /\ At(s, k, WordChars)
         /\ At(s, e, {":"})
         /\ q > p
         /\ At(s, q, AsciiLetters)
         /\ At(s, q + 1, {":"})
         /\ (q + 2 > Len(s) \/ At(s, q + 2, Blanks))
      THEN Some(<<CharUpper(s[q]), SubSeq(s, k, e - 1)>>)
      ELSE None

\* pattern.search: the match with the leftmost start
RECURSIVE SearchFrom(_, _)
SearchFrom(s, i) ==
    IF i > Len(s) THEN None
    ELSE LET match == MatchAt(s, i) IN
           IF match # None THEN match ELSE SearchFrom(s, i + 1)

\* an argument: a str by its characters, or something that is no str
Str(chars) == [isstr |-> TRUE, chars |-> chars]
NoStr == [isstr |-> FALSE, chars |-> <<>>]

\* _parse_rclone_mount_cmdline(cmdline): None, or (drive_letter, remote_name)
ParseRcloneMountCmdline(cmdline) ==
    IF ~cmdline.isstr THEN None
    ELSE IF cmdline.chars = <<>> THEN None
    ELSE SearchFrom(cmdline.chars, 1)

\* what parsing leaves as it is
ParseFrame ==
    UNCHANGED <<schedVars, syncVars, mountVars, left, dueCount, winTicks,
                lockVars, timerVars, taskVars, rcloneVars,
                runVars, pipeVars>>

\* a line arrives, with what the caller expects of it
Receive(line, exp) ==
    /\ text' = line
    /\ expected' = exp
    /\ lastOp' = Op("line", "", "")
    /\ events' = <<>>
    /\ UNCHANGED parsed
    /\ ParseFrame

\* the parser is applied to the line
ParseCmdline ==
    /\ lastOp.name = "line"
    /\ parsed' = ParseRcloneMountCmdline(text)
    /\ lastOp' = Op("_parse_rclone_mount_cmdline", "", "")
    /\ events' = <<>>
    /\ UNCHANGED <<text, expected>>
    /\ ParseFrame

-----------------------------------------------------------------------------

(* SyncWorker._parse_progress: an output line by the stretches of it that the *)
(* four patterns can match                                                   *)

\* a number as the output prints it: whole and one decimal, float(group)
Num(whole, tenth) == [whole |-> whole, tenth |-> tenth]

\* a stretch _PROGRESS_RE matches: '<transferred> <unit> / <total> <unit>, <pct>%'
BytesPart(transferred, tunit, total, totunit, pct) ==
    [kind |-> "bytes", transferred |-> transferred, transferred_unit |-> tunit,
     total |-> total, total_unit |-> totunit, percentage |-> pct]
\* a stretch _FILES_RE matches: 'Transferred: <done>/<total>'
FilesPart(done, total) == [kind |-> "files", done |-> done, total |-> total]
\* a stretch _SPEED_RE matches: '<value> <unit>/s'
SpeedPart(value, unit) == [kind |-> "speed", value |-> value, unit |-> unit]
\* a stretch _ETA_RE matches: 'ETA <token>'
EtaPart(token) == [kind |-> "eta", token |-> token]
\* text no pattern matches
NoisePart == [kind |-> "noise"]

\* units.get(unit, 1) of the bytes pattern
UnitBytes(unit) ==
    CASE unit = "B" -> 1
      [] unit = "KiB" -> 1024
      [] unit = "MiB" -> 1024 * 1024
      [] unit = "GiB" -> 1024 * 1024 * 1024
      [] unit = "TiB" -> 1024 * 1024 * 1024 * 1024
      [] OTHER -> 1

\* units.get(unit, 1) of the speed pattern
UnitSpeed(unit) ==
    CASE unit = "KiB" -> 1024
      [] unit = "MiB" -> 1024 * 1024
      [] unit = "GiB" -> 1024 * 1024 * 1024
      [] OTHER -> 1

\* int(value * mult)
Scaled(value, mult) == value.whole * mult + (value.tenth * mult) \div 10

\* pattern.search(line): the leftmost stretch the pattern matches, or None
SearchPart(line, kind) ==
    LET at == {i \in DOMAIN line : line[i].kind = kind} IN
      IF at = {} THEN None
      ELSE Some(line[CHOOSE i \in at : \A j \in at : i <= j])

\* the stats dict _parse_progress fills
StatsOf(line) ==
    LET progress_match == SearchPart(line, "bytes")
        files_match == SearchPart(line, "files")
        speed_match == SearchPart(line, "speed")
        eta_match == SearchPart(line, "eta")
        keys == (IF progress_match # None
                 THEN {"percentage", "bytes_transferred", "bytes_total"} ELSE {})
                \cup (IF files_match # None THEN {"files_transferred", "files_total"} ELSE {})
                \cup (IF speed_match # None THEN {"speed"} ELSE {})
                \cup (IF eta_match # None THEN {"eta"} ELSE {}) IN
      [k \in keys |->
         CASE k = "percentage" -> progress_match[1].percentage
           [] k = "bytes_transferred" ->
                 Scaled(progress_match[1].transferred, UnitBytes(progress_match[1].transferred_unit))
           [] k = "bytes_total" ->
                 Scaled(progress_match[1].total, UnitBytes(progress_match[1].total_unit))
           [] k = "files_transferred" -> files_match[1].done
           [] k = "files_total" -> files_match[1].total
           [] k = "speed" -> Scaled(speed_match[1].value, UnitSpeed(speed_match[1].unit))
           [] k = "eta" -> eta_match[1].token]

EmitsStatsUpdate_Never(stats) == FALSE

\* `if stats:`
EmitsStatsUpdate(stats) == DOMAIN stats # {}

\* the signals _parse_progress(line) emits for task id, in order
ParseProgressEmits(id, line) ==
    IF line = <<>> THEN <<>>
    ELSE LET stats == StatsOf(line) IN
           (IF SearchPart(line, "bytes") # None
            THEN <<Ev("progress", id, [percentage |-> stats["percentage"], files |-> 0,
                                      bytes_transferred |-> stats["bytes_transferred"]])>>
            ELSE <<>>)
           \o (IF EmitsStatsUpdate(stats) THEN <<Ev("stats_update", id, stats)>> ELSE <<>>)

\* the worker of task id reads a line of the process's output and parses it
ParseProgress(id, line) ==
    /\ text' = line
    /\ events' = ParseProgressEmits(id, line)
    /\ lastOp' = Op("_parse_progress", id, "")
    /\ UNCHANGED <<expected, parsed>>
    /\ ParseFrame

-----------------------------------------------------------------------------

(* RClone: the validation of config_create, config_update and config_delete *)

\* [a-zA-Z0-9_-] and [a-zA-Z0-9_]
RemoteNameChars == WordChars \cup {"-"}
OptionKeyChars == WordChars

FullMatch(s, class) == s # <<>> /\ \A i \in DOMAIN s : s[i] \in class

\* re.match(r'^[class]+$', s): `$` matches at the end of the string and also
\* just before a newline that ends the string
ReMatch(s, class) ==
    IF s # <<>> /\ s[Len(s)] = "\n"
    THEN FullMatch(s, class) \/ FullMatch(SubSeq(s, 1, Len(s) - 1), class)
    ELSE FullMatch(s, class)

\* _validate_remote_name(name) raises ValueError
RemoteNameRaises(name) ==
    IF name = <<>> THEN TRUE ELSE ~ReMatch(name, RemoteNameChars)

\* _validate_option_key(key) raises ValueError
OptionKeyRaises(key) ==
    IF key = <<>> THEN TRUE ELSE ~ReMatch(key, OptionKeyChars)

\* the loop over options.items(): some key makes _validate_option_key raise
OptionsRaise(keys) == \E i \in DOMAIN keys : OptionKeyRaises(keys[i])

\* what a call of RClone leaves as it is
RcloneFrame ==
    UNCHANGED <<schedVars, syncVars, mountVars, left, dueCount, winTicks,
                lockVars, timerVars, taskVars, parseVars,
                runVars, pipeVars>>

\* a config_* call: it raises ValueError, or self._run(*argv) runs one command
ConfigCall(op, name, keys, raises, argv) ==
    /\ args' = [name |-> name, keys |-> keys]
    /\ executed' = IF raises THEN <<>> ELSE <<argv>>
    /\ lastOp' = Op(op, "", IF raises THEN "ValueError" ELSE "RCloneResult")
    /\ events' = <<>>
    /\ RcloneFrame

\* config_create(name, remote_type, **options), options by their keys in order
ConfigCreate(name, remote_type, keys) ==
    ConfigCall("config_create", name, keys,
               RemoteNameRaises(name) \/ RemoteNameRaises(remote_type) \/ OptionsRaise(keys),
               <<"config", "create">> \o <<name, remote_type>> \o keys)

\* config_update(name, **options)
ConfigUpdate(name, keys) ==
    ConfigCall("config_update", name, keys,
               RemoteNameRaises(name) \/ OptionsRaise(keys),
               <<"config", "update">> \o <<name>> \o keys)

\* config_delete(name)
ConfigDelete(name) ==
    ConfigCall("config_delete", name, <<>>,
               RemoteNameRaises(name),
               <<"config", "delete">> \o <<name>>)

-----------------------------------------------------------------------------

(* SyncWorker.run on the worker thread and SyncWorker.cancel on the caller's
   thread, statement by statement; the two share self._cancelled and
   self._process without a lock *)

ClosedFile == "closed file"   \* str(e) of the ValueError a read of a closed pipe raises
Popen == Some("Popen")

\* run() reads at most this many lines of output
MaxLines == 1

\* what a step of the worker or of the caller leaves as it is
RunFrame ==
    UNCHANGED <<schedVars, syncVars, mountVars, obsVars,
                lockVars, timerVars, taskVars, parseVars, rcloneVars, pipeVars>>

Completion(ok, msg) == [ok |-> ok, msg |-> msg]

\* except Exception as e: self.finished.emit(self.task.id, False, str(e))
RunRaises(msg) ==
    /\ completions' = Append(completions, Completion(FALSE, msg))
    /\ run_pc' = "done"

\* self.started.emit(self.task.id) and the command line is built
RunStarted ==
    /\ run_pc = "start"
    /\ run_pc' = "popen"
    /\ UNCHANGED <<_cancelled, _process, cancel_pc, child, signalled, returncode,
                   stderr_closed, message, lines, completions, cancel_at>>
    /\ RunFrame

\* self._process = subprocess.Popen(...), which may raise
RunPopen(raised) ==
    /\ run_pc = "popen"
    /\ IF raised
       THEN /\ RunRaises(LaunchErr)
            /\ UNCHANGED <<_process, child>>
       ELSE /\ _process' = Popen
            /\ child' = "running"
            /\ run_pc' = "check"
            /\ UNCHANGED completions
    /\ UNCHANGED <<_cancelled, cancel_pc, signalled, returncode, stderr_closed,
                   message, lines, cancel_at>>
    /\ RunFrame

\* if self._cancelled:
RunCheck ==
    /\ run_pc = "check"
    /\ run_pc' = IF _cancelled THEN "terminate" ELSE "readline"
    /\ UNCHANGED <<_cancelled, _process, cancel_pc, child, signalled, returncode,
                   stderr_closed, message, lines, completions, cancel_at>>
    /\ RunFrame

\* self._process.terminate(); break
RunTerminate ==
    /\ run_pc = "terminate"
    /\ IF _process = None
       THEN RunRaises(NoProcess) /\ UNCHANGED signalled
       ELSE /\ signalled' = TRUE
            /\ run_pc' = "wait"
            /\ UNCHANGED completions
    /\ UNCHANGED <<_cancelled, _process, cancel_pc, child, returncode, stderr_closed,
                   message, lines, cancel_at>>
    /\ RunFrame

\* line = self._process.stderr.readline(): the call is entered
RunReadline ==
    /\ run_pc = "readline"
    /\ IF _process = None THEN RunRaises(NoProcess)
       ELSE IF stderr_closed THEN RunRaises(ClosedFile)
       ELSE run_pc' = "blocked" /\ UNCHANGED completions
    /\ UNCHANGED <<_cancelled, _process, cancel_pc, child, signalled, returncode,
                   stderr_closed, message, lines, cancel_at>>
    /\ RunFrame

\* readline returns a line of the running subprocess: self._parse_progress(line)
RunLine ==
    /\ run_pc = "blocked"
    /\ child = "running"
    /\ lines < MaxLines
    /\ lines' = lines + 1
    /\ run_pc' = "check"
    /\ UNCHANGED <<_cancelled, _process, cancel_pc, child, signalled, returncode,
                   stderr_closed, message, completions, cancel_at>>
    /\ RunFrame

\* readline returns "" at the end of the output: if not line: break
RunEof ==
    /\ run_pc = "blocked"
    /\ child = "exited"
    /\ run_pc' = "wait"
    /\ UNCHANGED <<_cancelled, _process, cancel_pc, child, signalled, returncode,
                   stderr_closed, message, lines, completions, cancel_at>>
    /\ RunFrame

\* return_code = self._process.wait(): the call is entered
RunWait ==
    /\ run_pc = "wait"
    /\ IF _process = None THEN RunRaises(NoProcess)
       ELSE run_pc' = "waiting" /\ UNCHANGED completions
    /\ UNCHANGED <<_cancelled, _process, cancel_pc, child, signalled, returncode,
                   stderr_closed, message, lines, cancel_at>>
    /\ RunFrame

\* wait() returns the exit code; message is chosen by self._cancelled
RunMessage ==
    /\ run_pc = "waiting"
    /\ child = "exited"
    /\ message' = Some(WorkerMessage(returncode[1], _cancelled))
    /\ run_pc' = "emit"
    /\ UNCHANGED <<_cancelled, _process, cancel_pc, child, signalled, returncode,
                   stderr_closed, lines, completions, cancel_at>>
    /\ RunFrame

\* self.finished.emit(self.task.id, success and not self._cancelled, message)
RunEmit ==
    /\ run_pc = "emit"
    /\ completions' = Append(completions,
                             Completion(WorkerSuccess(returncode[1], _cancelled), message[1]))
    /\ run_pc' = "done"
    /\ UNCHANGED <<_cancelled, _process, cancel_pc, child, signalled, returncode,
                   stderr_closed, message, lines, cancel_at>>
    /\ RunFrame

\* the subprocess ends, by itself or by the signal
ChildExits(rc) ==
    /\ child = "running"
    /\ child' = "exited"
    /\ returncode' = Some(rc)
    /\ UNCHANGED <<_cancelled, _process, run_pc, cancel_pc, signalled, stderr_closed,
                   message, lines, completions, cancel_at>>
    /\ RunFrame

\* cancel(): self._cancelled = True
CancelSet ==
    /\ cancel_pc = "idle"
    /\ _cancelled' = TRUE
    /\ cancel_at' = Some(run_pc)
    /\ cancel_pc' = "test"
    /\ UNCHANGED <<_process, run_pc, child, signalled, returncode, stderr_closed,
                   message, lines, completions>>
    /\ RunFrame

\* if self._process:
CancelTest ==
    /\ cancel_pc = "test"
    /\ cancel_pc' = IF _process = None THEN "done" ELSE "terminate"
    /\ UNCHANGED <<_cancelled, _process, run_pc, child, signalled, returncode,
                   stderr_closed, message, lines, completions, cancel_at>>
    /\ RunFrame

\* self._process.terminate()
CancelTerminate ==
    /\ cancel_pc = "terminate"
    /\ signalled' = TRUE
    /\ cancel_pc' = "wait"
    /\ UNCHANGED <<_cancelled, _process, run_pc, child, returncode, stderr_closed,
                   message, lines, completions, cancel_at>>
    /\ RunFrame

\* self._process.wait(timeout=5) returns
CancelWait ==
    /\ cancel_pc = "wait"
    /\ child = "exited"
    /\ cancel_pc' = "communicate"
    /\ UNCHANGED <<_cancelled, _process, run_pc, child, signalled, returncode,
                   stderr_closed, message, lines, completions, cancel_at>>
    /\ RunFrame

\* wait raises TimeoutExpired: self._process.kill(); self._process.wait(timeout=2)
CancelKill ==
    /\ cancel_pc = "wait"
    /\ child = "running"
    /\ child' = "exited"
    /\ returncode' = Some(1)
    /\ cancel_pc' = "communicate"
    /\ UNCHANGED <<_cancelled, _process, run_pc, signalled, stderr_closed,
                   message, lines, completions, cancel_at>>
    /\ RunFrame

\* self._process.communicate(): the pipes are read to their end and closed
CancelCommunicate ==
    /\ cancel_pc = "communicate"
    /\ stderr_closed' = TRUE
    /\ cancel_pc' = "clear"
    /\ UNCHANGED <<_cancelled, _process, run_pc, child, signalled, returncode,
                   message, lines, completions, cancel_at>>
    /\ RunFrame

\* finally: self._process = None
CancelClear ==
    /\ cancel_pc = "clear"
    /\ _process' = None
    /\ cancel_pc' = "done"
    /\ UNCHANGED <<_cancelled, run_pc, child, signalled, returncode, stderr_closed,
                   message, lines, completions, cancel_at>>
    /\ RunFrame

-----------------------------------------------------------------------------

(* SyncScheduler._on_tick as the loop it is, with a check callback that calls
   back into the scheduler while the loop runs *)

\* check callbacks that call remove_task(victim) when they are called for the
\* task `on`, and return otherwise
RemovingCallbacks == {"t1: remove_task t1", "t1: remove_task t2", "t2: remove_task t1"}

CallbackOn(cb) == IF cb = "t2: remove_task t1" THEN "t2" ELSE "t1"

\* the task a removing callback removes
CallbackRemoves(cb) == IF cb = "t1: remove_task t2" THEN "t2" ELSE "t1"

\* self._check_callback(task_id), called between two iterations of the loop
CheckCallbackOn(S, t) ==
    IF check_callback = None THEN S
    ELSE IF check_callback[1] \in RemovingCallbacks
    THEN IF CallbackOn(check_callback[1]) = t
         THEN SchedRemoveTask(S, CallbackRemoves(check_callback[1]))
         ELSE S
    ELSE S

CheckCallbackEvents(t) ==
    IF check_callback = None THEN <<>> ELSE <<Ev("_check_callback", t, check_callback[1])>>

\* for task_id, cron_expression in tasks_copy.items(): ord is the order of the
\* copy, snap the copy; the maps are read again in every iteration
RECURSIVE TickLoop(_, _, _, _)
TickLoop(ord, snap, S, evs) ==
    IF ord = <<>> THEN [sched |-> S, events |-> evs]
    ELSE LET t    == Head(ord)
             base == IF t \in DOMAIN S.lr THEN S.lr[t] ELSE Epoch
             due  == IF CronComputes(snap[t]) THEN now >= CronNext(snap[t], base) ELSE FALSE
         IN  IF due
             THEN IF t \in S.tr
                  THEN TickLoop(Tail(ord), snap, S, evs)
                  ELSE TickLoop(Tail(ord), snap,
                                CheckCallbackOn([S EXCEPT !.tr = @ \cup {t},
                                                          !.lr = Put(@, t, now),
                                                          !.dc[t] = Bump(@)], t),
                                evs \o <<Ev("taskDue", t, "")>> \o CheckCallbackEvents(t))
             ELSE TickLoop(Tail(ord), snap, S, evs)

\* _on_tick over the copy of the scheduled tasks in the order ord
OnTickLoop(ord) ==
    /\ DOMAIN workers = {}
    /\ LET start == [Sched EXCEPT !.tr = TickTriggered,
                                  !.dc = [t \in TaskIds |-> IF TickRollback THEN 0 ELSE @[t]],
                                  !.wt = [t \in TaskIds |->
                                            LET b == IF TickRollback THEN 0 ELSE @[t] IN
                                            IF b > 0 THEN Bump(b)
                                            ELSE IF t \in DOMAIN scheduled_tasks /\ TaskIsDue(t)
                                                 THEN 1 ELSE 0]]
           R == TickLoop(ord, scheduled_tasks, start, <<>>)
       IN  /\ SetSched(R.sched)
           /\ events' = R.events
    /\ last_check_time' = Some(now)
    /\ lastOp' = Op("_on_tick", "", IF TickRollback THEN "rollback" ELSE "")
    /\ UNCHANGED <<now, syncVars, mountVars, check_callback>>

-----------------------------------------------------------------------------

(* SyncManager: save_tasks, and the start of a new session over the file *)

\* mode.value and status.value
EnumValue(E, member) == CHOOSE v \in DOMAIN E : E[v] = member

\* SyncTask.to_dict
TaskToDict(id, task) ==
    TaskEntry(id, EnumValue(SyncModes, task.mode), EnumValue(SyncStatuses, task.status),
              Some(task.progress), task.scheduled, task.cron_expression)

\* [t.to_dict() for t in self.tasks.values()]
RECURSIVE TasksToDicts(_, _)
TasksToDicts(T, ids) ==
    IF ids = {} THEN <<>>
    ELSE LET id == CHOOSE x \in ids : TRUE IN
           <<TaskToDict(id, T[id])>> \o TasksToDicts(T, ids \ {id})

\* save_tasks
SaveTasks ==
    /\ tasks_file' = Some(TasksToDicts(tasks, DOMAIN tasks))
    /\ lastOp' = Op("save_tasks", "", "")
    /\ events' = <<>>
    /\ UNCHANGED <<tasks, written>>
    /\ TaskFrame

\* the application exits and is started again: SyncManager.__init__ builds
\* empty registries and a new scheduler and calls load_tasks; the worker
\* threads of the old process are gone
Restart ==
    /\ LET T == IF tasks_file = None THEN Empty ELSE LoadEntries(Empty, tasks_file[1]) IN
         /\ tasks' = T
         /\ SetSched(InitializeSchedules(SchedClear(Sched), T, DOMAIN T))
    /\ workers' = Empty
    /\ sync_threads' = Empty
    /\ sync_queue' = <<>>
    /\ last_check_time' = None
    /\ check_callback' = None
    /\ lastOp' = Op("SyncManager.__init__", "", IF tasks_file = None THEN "False" ELSE "True")
    /\ events' = <<>>
    /\ UNCHANGED <<now, mountVars>>

-----------------------------------------------------------------------------

(* SyncWorker.run and its subprocess over the two pipes Popen creates
   (stdout=PIPE, stderr=PIPE); run() reads stderr only *)

\* a pipe buffers at most this many lines
PipeCapacity == 1
\* the subprocess writes at most this many lines before it exits
MaxOutput == 3

Streams == {"stdout", "stderr"}

\* what a step over the pipes leaves as it is
PipeFrame ==
    UNCHANGED <<schedVars, syncVars, mountVars, obsVars,
                lockVars, timerVars, taskVars, parseVars, rcloneVars>>

Buffered(stream) == IF stream = "stdout" THEN stdout_pipe ELSE stderr_pipe

\* the subprocess starts to write a line to one of its streams
ChildBeginsWrite(stream) ==
    /\ child = "running"
    /\ pending = None
    /\ output < MaxOutput
    /\ pending' = Some(stream)
    /\ output' = output + 1
    /\ UNCHANGED <<stdout_pipe, stderr_pipe, runVars>>
    /\ PipeFrame

\* the write returns once the pipe has room for the line
ChildCompletesWrite ==
    /\ pending # None
    /\ Buffered(pending[1]) < PipeCapacity
    /\ stdout_pipe' = IF pending[1] = "stdout" THEN stdout_pipe + 1 ELSE stdout_pipe
    /\ stderr_pipe' = IF pending[1] = "stderr" THEN stderr_pipe + 1 ELSE stderr_pipe
    /\ pending' = None
    /\ UNCHANGED <<output, runVars>>
    /\ PipeFrame

\* the subprocess exits; it is not inside a write
ChildEnds(rc) ==
    /\ pending = None
    /\ ChildExits(rc)

\* self._process.stderr.readline() returns a buffered line:
\* self._parse_progress(line.strip())
PipeReadLine ==
    /\ run_pc = "blocked"
    /\ stderr_pipe > 0
    /\ stderr_pipe' = stderr_pipe - 1
    /\ run_pc' = "check"
    /\ UNCHANGED <<stdout_pipe, pending, output>>
    /\ UNCHANGED <<_cancelled, _process, cancel_pc, child, signalled, returncode,
                   stderr_closed, message, lines, completions, cancel_at>>
    /\ PipeFrame

\* readline returns "": the pipe is empty and its writer has exited
PipeEof ==
    /\ stderr_pipe = 0
    /\ RunEof

-----------------------------------------------------------------------------

(* MountManager.load_mounts, and the start of a session *)

\* what open() and json.load find in mounts.json: no file, text that is not
\* JSON, a JSON number, or a list of objects
NoFile        == [kind |-> "missing", data |-> <<>>]
NotJson       == [kind |-> "malformed", data |-> <<>>]
JsonNumber    == [kind |-> "number", data |-> <<>>]
JsonList(seq) == [kind |-> "list", data |-> seq]

\* an object of the list: the required keys it lacks, and its values
Entry(missing, obj) == [missing |-> missing, obj |-> obj]

Loaded(error, M) == [error |-> error, mounts |-> M]

\* for mount_data in data: mount = Mount.from_dict(mount_data);
\* self.mounts[mount.remote_name] = mount.  from_dict raises KeyError for a
\* missing 'remote_name' or 'drive_letter', the constructor raises ValueError
RECURSIVE LoadMountEntries(_, _)
LoadMountEntries(M, data) ==
    IF data = <<>> THEN Loaded("none", M)
    ELSE LET e == Head(data) IN
           IF e.missing # {} THEN Loaded("KeyError", M)
           ELSE IF FromDict(e.obj) = None THEN Loaded("ValueError", M)
           ELSE LoadMountEntries(Put(M, e.obj.remote_name, FromDict(e.obj)[1]), Tail(data))

\* load_mounts: json.JSONDecodeError and KeyError are caught, and
\* refresh_mount_status runs only when every entry was read
LoadMountsIn(M, content, os, D, P) ==
    IF content.kind \in {"missing", "malformed"} THEN Loaded("none", M)
    ELSE IF content.kind = "number" THEN Loaded("TypeError", M)
    ELSE LET L == LoadMountEntries(M, content.data) IN
           IF L.error = "KeyError" THEN Loaded("none", L.mounts)
           ELSE IF L.error = "ValueError" THEN L
           ELSE IF DiscoverSystemMounts(
                      [k \in DOMAIN L.mounts |->
                          ReconcileMount(L.mounts[k], CheckDriveExists(os, D, L.mounts[k]))],
                      os, P).raised
           THEN Loaded("ValueError", Refreshed(L.mounts, os, D, P))
           ELSE Loaded("none", Refreshed(L.mounts, os, D, P))

\* load_mounts on a manager, with what it finds in the file and P the answer
\* of the process query
LoadMounts(content, P) ==
    /\ os_name # "nt" => P = <<>>
    /\ LET L == LoadMountsIn(mounts, content, os_name, drives, P) IN
         /\ mounts' = L.mounts
         /\ MountObs(Op("load_mounts", "", IF L.error = "none" THEN "" ELSE "raised"),
                     <<>>, NoScan)
    /\ UNCHANGED <<drives, procs, mount_workers, mount_threads, mount_queue, mounts_file>>

\* the list save_mounts wrote, in the order ord
SavedList(ord) == [i \in DOMAIN ord |-> Entry({}, ord[i])]

\* the application starts again: MountManager() followed by load_mounts()
\* (main.py 46-47).  The rclone processes of the session before are gone, the
\* file is as that session left it.
StartSession(ord, P) ==
    /\ os_name # "nt" => P = <<>>
    /\ LET content == IF mounts_file = None THEN NoFile ELSE JsonList(SavedList(ord))
           L       == LoadMountsIn(Empty, content, os_name, drives, P)
       IN  /\ mounts' = L.mounts
           /\ MountObs(Op("load_mounts", "start", IF L.error = "none" THEN "" ELSE "raised"),
                       <<>>, NoScan)
    /\ mount_workers' = Empty
    /\ mount_threads' = Empty
    /\ mount_queue' = <<>>
    /\ procs' = Empty
    /\ UNCHANGED <<drives, mounts_file>>

-----------------------------------------------------------------------------

\* the state after construction, whatever the platform
Constructed ==
    /\ scheduled_tasks = Empty
    /\ last_run_times = Empty
    /\ triggered_tasks = {}
    /\ last_check_time = None
    /\ check_callback = None
    /\ now \in Times
    /\ tasks = Empty
    /\ workers = Empty
    /\ sync_threads = Empty
    /\ sync_queue = <<>>
    /\ drives = {}
    /\ procs = Empty
    /\ mounts = Empty
    /\ mount_workers = Empty
    /\ mount_threads = Empty
    /\ mount_queue = <<>>
    /\ mounts_file = None
    /\ scan = NoScan
    /\ calls = <<>>
    /\ lastOp = Op("init", "", "")
    /\ events = <<>>
    /\ left = {}
    /\ dueCount = [t \in TaskIds |-> 0]
    /\ winTicks = [t \in TaskIds |-> 0]
    /\ mutex = [m \in Managers |-> None]
    /\ stepping = [th \in Threads |-> None]
    /\ lastStep = NoStep
    /\ timer_active = FALSE
    /\ last_minute = -1
    /\ minute = 0
    /\ observed = None
    /\ fires = 0
    /\ fireTicks = 0
    /\ tasks_file = None
    /\ written = None
    /\ text = [isstr |-> TRUE, chars |-> <<>>]
    /\ expected = None
    /\ parsed = None
    /\ args = [name |-> <<>>, keys |-> <<>>]
    /\ executed = <<>>
    /\ _cancelled = FALSE
    /\ _process = None
    /\ run_pc = "start"
    /\ cancel_pc = "idle"
    /\ child = "none"
    /\ signalled = FALSE
    /\ returncode = None
    /\ stderr_closed = FALSE
    /\ message = None
    /\ lines = 0
    /\ completions = <<>>
    /\ cancel_at = None
    /\ stdout_pipe = 0
    /\ stderr_pipe = 0
    /\ pending = None
    /\ output = 0

Init == Constructed /\ os_name = "nt"

SchedNext ==
    \/ \E t \in TaskIds, c \in CronExprs, lr \in LastRunArgs : SchedulerAddTask(t, c, lr)
    \/ \E t \in TaskIds : SchedulerRemoveTask(t)
    \/ \E t \in TaskIds, c \in CronExprs : SchedulerUpdateTask(t, c)
    \/ \E t \in TaskIds, rt \in LastRunArgs : SchedulerUpdateLastRun(t, rt)
    \/ SchedulerClear
    \/ OnTick
    \/ \E t \in Times : SetClock(t)

SchedSpec == Init /\ [][SchedNext]_vars

\* the tick with a cron expression whose next date cannot be computed and
\* with a check callback
TickCrons == {"*/2 * * * *", NeverCron}

TickNext ==
    \/ \E t \in TaskIds, c \in TickCrons, lr \in LastRunArgs : SchedulerAddTask(t, c, lr)
    \/ \E t \in TaskIds : SchedulerUpdateLastRun(t, None)
    \/ \E cb \in Callbacks : SetCheckCallback(cb)
    \/ OnTick
    \/ \E t \in Times : SetClock(t)

TickSpec == Init /\ [][TickNext]_vars

\* the task ids and cron expressions the sync manager is driven with
SyncIds   == {"t1"}
SyncCrons == {"*/2 * * * *"}

\* the wall clock stands at MaxTime while the manager is observed: the cron
\* occurrences up to then are in the past
SyncInit == Init /\ now = MaxTime

\* one unit observed alone, the wall clock standing at MaxTime
UnitInit == Init /\ now = MaxTime

SyncNext ==
    \/ \E id \in SyncIds : AddTask(id)
    \/ \E id \in SyncIds : RemoveTask(id)
    \/ \E id \in SyncIds : RunTask(id)
    \/ \E id \in SyncIds : CancelTask(id)
    \/ \E id \in SyncIds, c \in SyncCrons : EnableSchedule(id, c)
    \/ \E id \in SyncIds : DisableSchedule(id)
    \/ Deliver
    \/ \E w \in WorkerIds, raised \in BOOLEAN : WorkerLaunch(w, raised)
    \/ \E w \in WorkerIds, rc \in ExitCodes : WorkerExit(w, rc)
    \/ \E w \in WorkerIds : WorkerRaises(w)
    \/ OnTick

SyncSpec == SyncInit /\ [][SyncNext]_vars

\* the sync manager under a moving wall clock: runs are started by hand or by
\* the tick and complete at the time the clock shows then
RunCrons == {"*/2 * * * *", "*/3 * * * *"}

RunNext ==
    \/ \E id \in SyncIds : AddTask(id)
    \/ \E id \in SyncIds : RunTask(id)
    \/ \E id \in SyncIds, c \in RunCrons : EnableSchedule(id, c)
    \/ \E id \in SyncIds : DisableSchedule(id)
    \/ \E id \in SyncIds, c \in RunCrons : UpdateSchedule(id, c)
    \/ Deliver
    \/ \E w \in WorkerIds : WorkerLaunch(w, FALSE)
    \/ \E w \in WorkerIds, rc \in ExitCodes : WorkerExit(w, rc)
    \/ OnTick
    \/ \E t \in Times : SetClock(t)

RunSpec == Init /\ [][RunNext]_vars

\* the mount manager on either platform; the wall clock plays no part
MountInit == Constructed /\ os_name \in OsNames /\ now = MaxTime

\* the inputs the mount lifecycle is driven with
LifeDrives  == {"x"}
LifeOptions == {DefaultOptions}
LifeLists   == {<<>>}
LifeEnvs    == {Env("dies", 1, "none", "runs"), Env("survives", 0, "none", "runs")}

MountNext ==
    \/ \E name \in MountNames, d \in LifeDrives, opt \in LifeOptions : AddMount(name, d, opt)
    \/ \E name \in MountNames, e \in LifeEnvs : RemoveMount(name, e)
    \/ \E name \in MountNames : Mount(name)
    \/ \E name \in MountNames \cup DOMAIN mounts, e \in LifeEnvs : Unmount(name, e)
    \/ \E P \in LifeLists : RefreshMountStatus(P)
    \/ MountDeliver
    \/ \E w \in WorkerIds, ok \in BOOLEAN : MountWorkerRun(w, ok)
    \/ \E d \in DriveLetters : DriveChange(d)
    \/ \E pid \in Pids : ProcessExit(pid)

MountSpec == MountInit /\ [][MountNext]_vars

\* the registry under add, remove, unmount, refresh and save, no worker running
RegistryInit == Constructed /\ os_name = "nt" /\ now = MaxTime

RegistryNext ==
    \/ \E name \in MountNames, d \in DriveInputs, opt \in MountOptions : AddMount(name, d, opt)
    \/ \E name \in MountNames, e \in LifeEnvs : RemoveMount(name, e)
    \/ \E name \in MountNames \cup DOMAIN mounts, e \in LifeEnvs : Unmount(name, e)
    \/ \E P \in ProcessLists : RefreshMountStatus(P)
    \/ SaveMounts
    \/ \E d \in DriveLetters : DriveChange(d)

RegistrySpec == RegistryInit /\ [][RegistryNext]_vars

\* unmount among rclone processes the application did not start, with every
\* answer of the OS to the query and to a termination attempt
KillNext ==
    \/ \E name \in MountNames, d \in DriveInputs, opt \in LifeOptions : AddMount(name, d, opt)
    \/ \E name \in MountNames \cup DOMAIN mounts, e \in Envs : Unmount(name, e)
    \/ \E d \in DriveLetters : DriveChange(d)
    \/ \E pid \in Pids, d \in DriveLetters : ProcessStart(pid, d)
    \/ \E pid \in Pids : ProcessExit(pid)

KillSpec == RegistryInit /\ [][KillNext]_vars

\* the drive letters of a registry of two mounts, on either platform
BatchNames == {"a", "b"}

DriveNext ==
    \/ \E name \in BatchNames, d \in DriveInputs, opt \in LifeOptions : AddMount(name, d, opt)
    \/ \E name \in BatchNames, opt \in LifeOptions : AddMountAuto(name, opt)
    \/ \E name \in BatchNames, e \in LifeEnvs : RemoveMount(name, e)
    \/ \E P \in LifeLists : RefreshMountStatus(P)
    \/ \E d \in DriveLetters : DriveChange(d)

DriveSpec == MountInit /\ [][DriveNext]_vars

\* the batch operations over a registry of two mounts

BatchOptions == {opt \in MountOptions : opt.auto_mount}

BatchNext ==
    \/ \E name \in BatchNames, d \in LifeDrives, opt \in BatchOptions : AddMount(name, d, opt)
    \/ \E ord \in Orders(AutoMounts(os_name, drives, mounts)) : AutoMountAll(ord)
    \/ \E ord \in Orders(DOMAIN mounts), e \in LifeEnvs : UnmountAll(ord, e)
    \/ MountDeliver
    \/ \E w \in WorkerIds : MountWorkerRun(w, TRUE)

BatchSpec == MountInit /\ [][BatchNext]_vars

\* unmount of a mount whose worker stored a pid, on either platform, with
\* every answer of the process to the termination attempt
TerminateEnvs == {e \in Envs : e.query = "runs"}

TerminateNext ==
    \/ \E name \in MountNames, d \in LifeDrives, opt \in LifeOptions : AddMount(name, d, opt)
    \/ \E name \in MountNames : Mount(name)
    \/ \E name \in MountNames, e \in TerminateEnvs : Unmount(name, e)
    \/ MountDeliver
    \/ \E w \in WorkerIds, ok \in BOOLEAN : MountWorkerRun(w, ok)
    \/ \E pid \in Pids : ProcessExit(pid)

TerminateSpec == MountInit /\ [][TerminateNext]_vars

-----------------------------------------------------------------------------
(* Claims about the scheduler, checked under SchedSpec *)

\* C1: once a tick has found a scheduled task due, the ticks from that one on,
\* however many, have emitted exactly one taskDue for it, as long as no
\* update_last_run, remove_task, clear or clock rollback came between: the
\* first of them fired it and every later one was silent for it.
C1_OneDueEventPerWindow ==
    \A t \in TaskIds : winTicks[t] >= 1 => dueCount[t] = 1

\* three consecutive ticks on a due task, one event
C1_Witness ==
    \E t \in TaskIds : winTicks[t] >= 3 /\ dueCount[t] = 1 /\ lastOp.name = "_on_tick"

\* C10 as stated: a task id leaves the triggered set only in update_last_run
\* for that task or in a tick that detects a clock rollback.
C10_OnlyUpdateOrRollback ==
    \A t \in left :
        \/ lastOp.name = "scheduler.update_last_run" /\ lastOp.id = t
        \/ lastOp.name = "_on_tick" /\ lastOp.ret = "rollback"

\* C10 amended: a task id leaves the triggered set only in update_last_run or
\* remove_task for that task, in clear, or in a tick that detects a clock
\* rollback; add_task, update_task and a tick without rollback remove nothing.
C10_OnlyUpdateRemoveClearOrRollback ==
    \A t \in left :
        \/ lastOp.name = "scheduler.update_last_run" /\ lastOp.id = t
        \/ lastOp.name = "scheduler.remove_task" /\ lastOp.id = t
        \/ lastOp.name = "scheduler.clear"
        \/ lastOp.name = "_on_tick" /\ lastOp.ret = "rollback"

\* update_last_run took a triggered task out of the set
C10_Witness ==
    /\ lastOp.name = "scheduler.update_last_run"
    /\ lastOp.id \in left

-----------------------------------------------------------------------------
(* Claims about the sync manager, checked under SyncSpec *)

\* C3: when the completion event of a cancelled worker (the one that carries
\* the cancelled message) has been delivered to the manager, the task's
\* status is Idle.
C3_CancelledRunEndsIdle ==
    (/\ lastOp.name = "_on_task_finished"
     /\ lastOp.ret = Cancelled
     /\ lastOp.id \in DOMAIN tasks)
    => tasks[lastOp.id].status = "IDLE"

\* the threads that work for task id
ThreadsOf(TH, id) == {w \in DOMAIN TH : TH[w].task = id}

\* C4: run_task(id) on a task whose status is Running returns False and leaves
\* the tasks, the worker registry, the worker threads and the scheduler as
\* they were; when the call comes from the scheduler's due-event, the task,
\* its registry entry and its threads are as they were.
C4_RunningTaskRejectsRun ==
    [][\A id \in TaskIds :
         (id \in DOMAIN tasks /\ tasks[id].status = "RUNNING") =>
           /\ (lastOp'.name = "run_task" /\ lastOp'.id = id) =>
                /\ lastOp'.ret = "False"
                /\ UNCHANGED <<tasks, workers, sync_threads, sync_queue, schedVars>>
           /\ (lastOp'.name = "_on_tick" /\ Ev("scheduledTaskDue", id, "") \in Range(events')) =>
                /\ tasks' = tasks
                /\ workers' = workers
                /\ sync_threads' = sync_threads
      ]_vars

\* run_task was called on a Running task whose worker is registered and alive
C4_Witness ==
    /\ lastOp.name = "run_task"
    /\ lastOp.ret = "False"
    /\ lastOp.id \in DOMAIN tasks
    /\ tasks[lastOp.id].status = "RUNNING"
    /\ lastOp.id \in DOMAIN workers
    /\ workers[lastOp.id] \in DOMAIN sync_threads

-----------------------------------------------------------------------------
(* Claims about the mount manager, checked under MountSpec and RegistrySpec *)

\* C2: unmount(name) on a known mount returns True and leaves the mount with
\* status Unmounted and no process id, whatever it found to stop or kill.
C2_UnmountAlwaysUnmounts ==
    (lastOp.name = "unmount" /\ lastOp.id \in DOMAIN mounts) =>
        /\ lastOp.ret = "True"
        /\ mounts[lastOp.id].status = "UNMOUNTED"
        /\ mounts[lastOp.id].process_id = None

\* the worker whose run is the step from the current state to the next
RanWorker == {w \in DOMAIN mount_threads :
                /\ mount_threads[w].pc = "start"
                /\ IF w \in DOMAIN mount_threads' THEN mount_threads'[w].pc = "done" ELSE TRUE}

\* C5: mount(name) on an unknown name returns False and on a mounted mount
\* returns True, both without a worker; on a known mount that is not mounted
\* it sets Mounting and starts one registered worker.  A worker that launched
\* the process stores its pid in its mount and reports success, one whose
\* launch failed reports the failure; delivering the success report sets
\* Mounted and clears the error message, delivering the failure report sets
\* Error with the message.
C5_MountLifecycle ==
    [][\A n \in MountNames :
         /\ (lastOp'.name = "mount" /\ lastOp'.id = n) =>
               IF n \notin DOMAIN mounts
               THEN lastOp'.ret = "False"
                    /\ UNCHANGED <<mounts, mount_workers, mount_threads, mount_queue>>
               ELSE IF IsMounted(os_name, drives, mounts[n])
               THEN lastOp'.ret = "True"
                    /\ UNCHANGED <<mounts, mount_workers, mount_threads, mount_queue>>
               ELSE /\ lastOp'.ret = "True"
                    /\ mounts'[n].status = "MOUNTING"
                    /\ Cardinality(DOMAIN mount_threads' \ DOMAIN mount_threads) = 1
                    /\ n \in DOMAIN mount_workers'
                    /\ mount_workers'[n] \in DOMAIN mount_threads' \ DOMAIN mount_threads
                    /\ mount_threads'[mount_workers'[n]].pc = "start"
         /\ (lastOp'.name = "mount_worker" /\ lastOp'.id = n) =>
               /\ Cardinality(RanWorker) = 1
               /\ mount_queue' # <<>>
               /\ \A w \in RanWorker :
                    IF lastOp'.ret = "launched"
                    THEN /\ mount_queue'[Len(mount_queue')] = Sig("finished", n, TRUE, MountedOk)
                         /\ mount_threads[w].attached =>
                               /\ mounts'[n].process_id # None
                               /\ mounts'[n].process_id[1] \in DOMAIN procs' \ DOMAIN procs
                    ELSE /\ mount_queue'[Len(mount_queue')].ok = FALSE
                         /\ UNCHANGED <<mounts, procs>>
         /\ (lastOp'.name = "_on_mount_finished" /\ lastOp'.id = n /\ n \in DOMAIN mounts) =>
               /\ n \in DOMAIN mounts'
               /\ IF lastOp'.ret = MountedOk
                  THEN /\ mounts'[n].status = "MOUNTED"
                       /\ mounts'[n].error_message = None
                  ELSE /\ mounts'[n].status = "ERROR"
                       /\ mounts'[n].error_message = Some(lastOp'.ret)
      ]_vars

\* a success report was delivered: Mounted, the worker's pid stored, no error
C5_Witness ==
    /\ lastOp.name = "_on_mount_finished"
    /\ lastOp.ret = MountedOk
    /\ lastOp.id \in DOMAIN mounts
    /\ mounts[lastOp.id].status = "MOUNTED"
    /\ mounts[lastOp.id].process_id # None
    /\ mounts[lastOp.id].error_message = None
    /\ lastOp.id \in DOMAIN mount_workers

\* C6: refresh_mount_status leaves every config mount Mounted exactly if its
\* drive exists: Mounted with the drive gone becomes Unmounted with the pid
\* cleared, not Mounted with the drive there becomes Mounted, and a mount
\* without drift is left as it was.
C6_RefreshReconciles ==
    [][lastOp'.name = "refresh_mount_status" =>
         \A k \in ConfigKeys(mounts) :
            LET m == mounts[k]
                e == os_name = "nt" /\ m.drive_letter \in drives
            IN  /\ k \in DOMAIN mounts'
                /\ (mounts'[k].status = "MOUNTED") <=> e
                /\ (m.status = "MOUNTED" /\ ~e) =>
                      (mounts'[k].status = "UNMOUNTED" /\ mounts'[k].process_id = None)
                /\ (m.status # "MOUNTED" /\ e) => mounts'[k].status = "MOUNTED"
                /\ ((m.status = "MOUNTED") <=> e) => mounts'[k] = m
      ]_vars

\* a refresh found a Mounted config mount without its drive and cleared its pid
C6_Witness ==
    /\ lastOp.name = "refresh_mount_status"
    /\ \E k \in scan.cleared \cap ConfigKeys(mounts) :
          mounts[k].status = "UNMOUNTED" /\ mounts[k].process_id = None

\* the drive letters of the process list the last refresh queried
QueryDrives == {scan.procs[i].drive : i \in 1..Len(scan.procs)}

\* C7: discover_system_mounts returns, for the config mounts and the process
\* list it is given, mounts whose drive letters are exactly the process drives
\* that no config mount claims, each with source discovered and status Mounted.
C7_DiscoveryReturnsUnclaimedDrives ==
    lastOp.name = "refresh_mount_status" =>
        /\ ~scan.raised
        /\ {scan.found[i].drive_letter : i \in 1..Len(scan.found)}
              = QueryDrives \ ConfigDrives(mounts)
        /\ \A i \in 1..Len(scan.found) :
              scan.found[i].source = "discovered" /\ scan.found[i].status = "MOUNTED"

\* C8 (the part that fails): after refresh_mount_status every discovered entry
\* of the registry is a mount of this cycle's process list, under the key of
\* its drive letter, on a drive no config mount claims; none is left over from
\* an earlier cycle.
C8_NoStaleDiscoveredEntry ==
    lastOp.name = "refresh_mount_status" =>
        \A k \in DiscoveredKeys(mounts) :
            /\ mounts[k].drive_letter \in QueryDrives \ ConfigDrives(mounts)
            /\ k = DiscKey(mounts[k].drive_letter)

\* the config mounts the model can hold, whatever their status, pid and error
ConfigMountUniverse ==
    {[NewMount(n, d, st, opt, "config") EXCEPT !.process_id = pid, !.error_message = err] :
        n \in MountNames, d \in DriveInputs, st \in {"UNMOUNTED", "MOUNTING", "MOUNTED", "ERROR"},
        opt \in MountOptions, pid \in {None} \cup {Some(p) : p \in Pids},
        err \in {None, Some(MountLaunchErr)}}

\* C9: what add_mount, remove_mount and save_mounts leave in mounts.json is
\* one object per config mount, each deserializing to that mount, and nothing
\* for a discovered mount, whose to_dict is None; and every config mount
\* deserializes from its serialized object with every field as it was.
C9_SavedConfigRoundTrip ==
    /\ lastOp.name \in {"add_mount", "remove_mount", "save_mounts"} =>
          /\ mounts_file # None
          /\ \A d \in mounts_file[1] :
                /\ d.source = "config"
                /\ d.remote_name \in ConfigKeys(mounts)
                /\ FromDict(d) = Some(mounts[d.remote_name])
          /\ \A k \in ConfigKeys(mounts) : \E d \in mounts_file[1] : FromDict(d) = Some(mounts[k])
          /\ Cardinality(mounts_file[1]) = Cardinality(ConfigKeys(mounts))
    /\ \A k \in DiscoveredKeys(mounts) : ToDict(mounts[k]) = None
    /\ \A m \in ConfigMountUniverse \cup {mounts[k] : k \in ConfigKeys(mounts)} :
          /\ ToDict(m) # None
          /\ FromDict(ToDict(m)[1]) = Some(m)

\* save_mounts ran with a Mounted config mount and a discovered mount registered
C9_Witness ==
    /\ lastOp.name = "save_mounts"
    /\ DiscoveredKeys(mounts) # {}
    /\ \E k \in ConfigKeys(mounts) : mounts[k].status = "MOUNTED"
    /\ mounts_file # None
    /\ Cardinality(mounts_file[1]) = 1

-----------------------------------------------------------------------------
(* Claims about the tick, checked under SchedSpec and TickSpec *)

\* the tasks that got a taskDue event in the step to the next state
DueEmitted == {t \in TaskIds : Ev("taskDue", t, "") \in Range(events')}

\* C11: a tick whose time is earlier than the recorded check time empties the
\* triggered set before it evaluates the tasks, so that afterwards the set
\* holds just the tasks this tick fired, and every due task fires whether it
\* was in the set or not; a tick whose time is not earlier takes nothing out
\* of the set.  Either tick records its time as the check time.
C11_RollbackEmptiesTriggered ==
    [][lastOp'.name = "_on_tick" =>
         /\ last_check_time' = Some(now)
         /\ IF last_check_time # None /\ now < last_check_time[1]
            THEN /\ triggered_tasks' = DueEmitted
                 /\ \A t \in DOMAIN scheduled_tasks :
                       (CronComputes(scheduled_tasks[t])
                        /\ now >= CronNext(scheduled_tasks[t],
                                           IF t \in DOMAIN last_run_times
                                           THEN last_run_times[t] ELSE Epoch))
                       => t \in DueEmitted
            ELSE triggered_tasks \subseteq triggered_tasks'
      ]_vars

\* a rollback tick took a task out of the triggered set and fired another
C11_Witness ==
    /\ lastOp.name = "_on_tick"
    /\ lastOp.ret = "rollback"
    /\ left # {}
    /\ triggered_tasks # {}
    /\ last_check_time = Some(now)

\* C12: in a tick, every scheduled task whose next occurrence can be computed,
\* is due and is not in the triggered set gets its due-event, whatever the
\* cron expressions of the other tasks and whatever the check callback does;
\* the tick itself ends normally.
C12_TickIsolatesFailures ==
    [][lastOp'.name = "_on_tick" =>
         /\ lastOp'.ret \in {"", "rollback"}
         /\ \A t \in DOMAIN scheduled_tasks :
               (/\ CronComputes(scheduled_tasks[t])
                /\ now >= CronNext(scheduled_tasks[t],
                                   IF t \in DOMAIN last_run_times
                                   THEN last_run_times[t] ELSE Epoch)
                /\ (t \in triggered_tasks =>
                       (last_check_time # None /\ now < last_check_time[1])))
               => (t \in DueEmitted /\ t \in triggered_tasks')
      ]_vars

\* a tick fired one task and called a raising callback for it while another
\* scheduled task has a cron expression whose next date cannot be computed
C12_Witness ==
    /\ lastOp.name = "_on_tick"
    /\ \E t \in DOMAIN scheduled_tasks, u \in DOMAIN scheduled_tasks :
          /\ t # u
          /\ scheduled_tasks[u] = NeverCron
          /\ Ev("taskDue", t, "") \in Range(events)
          /\ Ev("_check_callback", t, "raises") \in Range(events)

-----------------------------------------------------------------------------
(* Claims about the completion of a run, checked under RunSpec and SyncSpec *)

-----------------------------------------------------------------------------
(* Claims about SyncWorker.run, checked under SyncSpec *)

\* C15: the run of a worker reports success exactly when the exit code of the
\* subprocess is 0 and the cancellation flag is not set, and whenever the
\* cancellation flag is set the message it reports is the cancelled message.
C15_WorkerReport ==
    [][(lastOp'.name = "worker" /\ DOMAIN sync_threads' # DOMAIN sync_threads) =>
         LET w == CHOOSE x \in DOMAIN sync_threads : x \notin DOMAIN sync_threads'
             e == sync_queue'[Len(sync_queue')] IN
           /\ e.sig = "finished"
           /\ e.ok <=> (lastOp'.ret = "0" /\ ~sync_threads[w].cancelled)
           /\ sync_threads[w].cancelled => e.msg = Cancelled
      ]_vars

-----------------------------------------------------------------------------
(* Claims about unmount and the helpers that end processes, checked under
   MountSpec, KillSpec and TerminateSpec *)

\* C16: unmount(name) invokes the drive-letter search only for a mount that
\* had neither a registered worker nor a stored pid; a registered worker is
\* stopped first and is out of the worker registry afterwards, and then the
\* drive-letter search is not invoked.
C16_DriveSearchOnlyWithoutHandle ==
    [][(lastOp'.name = "unmount" /\ lastOp'.id \in DOMAIN mounts) =>
         LET name == lastOp'.id IN
           /\ "kill_by_drive" \in Range(calls') =>
                 (name \notin DOMAIN mount_workers /\ mounts[name].process_id = None)
           /\ name \in DOMAIN mount_workers =>
                 /\ Len(calls') > 0
                 /\ calls'[1] = "worker.stop"
                 /\ name \notin DOMAIN mount_workers'
                 /\ "kill_by_drive" \notin Range(calls')
      ]_vars

\* an unmount without worker and pid went to the drive-letter search
C16_Witness ==
    /\ lastOp.name = "unmount"
    /\ lastOp.ret = "True"
    /\ Len(calls) > 0
    /\ calls[1] = "kill_by_drive"

\* C17: taskkill by image name is issued only when the exact command-line
\* query could not be run and the path of the drive exists; never after the
\* exact query ran, never when the path of the drive does not exist.
C17_CoarseKillOnlyWithoutQuery ==
    "taskkill /IM" \in Range(calls) =>
        /\ "query:unavailable" \in Range(calls)
        /\ "path:exists" \in Range(calls)
        /\ "query:ran" \notin Range(calls)
        /\ "path:missing" \notin Range(calls)

IsPoll(c) == c \in {"poll:alive", "poll:gone"}

\* the order of the steps of every termination attempt, the liveness poll
\* after the forced kill left aside
TerminateOrder ==
    \A i \in DOMAIN calls :
       /\ calls[i] = "graceful" => (i < Len(calls) /\ IsPoll(calls[i + 1]))
       /\ IsPoll(calls[i]) => (i > 1 /\ calls[i - 1] \in {"graceful", "poll:alive"})
       /\ calls[i] = "poll:gone" => (i < Len(calls) /\ calls[i + 1] = "return True")
       /\ calls[i] \in {"forced", "forced:raises"} =>
             /\ i > MaxPolls + 1
             /\ calls[i - MaxPolls - 1] = "graceful"
             /\ \A k \in 1..MaxPolls : calls[i - k] = "poll:alive"
       /\ calls[i] \in {"graceful:raises", "forced:raises"} =>
             (i < Len(calls) /\ calls[i + 1] = "return False")
       /\ calls[i] = "return False" =>
             (i > 1 /\ calls[i - 1] \in {"graceful:raises", "forced:raises"})
       /\ calls[i] = "return True" => (i > 1 /\ calls[i - 1] \in {"poll:gone", "forced"})
       /\ "return False" \in Range(calls) => lastOp.ret # "raised"

\* C18 as stated: graceful stop, the polls of the grace window, the forced
\* kill only after every poll saw the process alive, then a liveness poll
\* again; no forced kill once a poll found the process gone; true without an
\* exception, false and nothing propagated when a step raises.
C18_TerminatePollsAgain ==
    /\ TerminateOrder
    /\ \A i \in DOMAIN calls :
          calls[i] = "forced" => (i < Len(calls) /\ IsPoll(calls[i + 1]))

\* C18, amended: as above, but the forced kill is the last step: the call
\* returns true right after it, without a liveness poll.
C18_TerminateSequence ==
    /\ TerminateOrder
    /\ \A i \in DOMAIN calls :
          calls[i] = "forced" => (i < Len(calls) /\ calls[i + 1] = "return True")

\* an unmount on a platform without taskkill ended a process that outlived
\* the grace window by the forced kill
C18_Witness ==
    /\ lastOp.name = "unmount"
    /\ os_name # "nt"
    /\ "forced" \in Range(calls)
    /\ "poll:alive" \in Range(calls)

-----------------------------------------------------------------------------
(* Claims about the batch operations, checked under BatchSpec *)

\* unmount(k) was called in the step: a call without worker ends with the
\* status event; a worker is out of the worker registry after the call
UnmountAttempted(k) ==
    /\ k \notin DOMAIN mount_workers'
    /\ \/ Ev("mountStatusChanged", k, "UNMOUNTED") \in Range(events')
       \/ k \in DOMAIN mount_workers

\* C19: unmount_all calls unmount for every mount of the registry and
\* auto_mount_all calls mount for every mount that is marked auto_mount and is
\* not mounted, whatever the calls for the mounts before it did, and neither
\* of the two lets an exception out.
C19_BatchAttemptsAll ==
    [][/\ lastOp'.name = "unmount_all" =>
            /\ lastOp'.ret # "raised"
            /\ \A k \in DOMAIN mounts : UnmountAttempted(k)
       /\ lastOp'.name = "auto_mount_all" =>
            /\ lastOp'.ret # "raised"
            /\ \A k \in AutoMounts(os_name, drives, mounts) :
                  /\ k \in DOMAIN mount_workers'
                  /\ Ev("mountStatusChanged", k, "MOUNTING") \in Range(events')
      ]_vars

-----------------------------------------------------------------------------
(* Claims about the drive letters, checked under DriveSpec *)

\* C20 as stated: get_available_drives returns exactly the letters that are
\* neither an existing drive nor the drive letter of a mount of the registry,
\* whatever the status of that mount.
C20_ExcludesEveryRegistryLetter ==
    os_name = "nt" =>
        GetAvailableDrives(os_name, drives, mounts)
          = DriveLetters \ (drives \cup {mounts[k].drive_letter : k \in DOMAIN mounts})

\* C20, amended: on Windows a letter is returned exactly when its path does
\* not exist and no mount of the registry that is mounted has it, so the
\* letter of a mount that is not mounted is returned; elsewhere nothing is
\* returned.
C20_AvailableDrives ==
    LET G == GetAvailableDrives(os_name, drives, mounts) IN
      IF os_name = "nt"
      THEN /\ \A d \in DriveLetters :
                 d \in G <=> /\ d \notin drives
                             /\ \A k \in DOMAIN mounts :
                                   mounts[k].drive_letter = d
                                   => ~IsMounted(os_name, drives, mounts[k])
           /\ \A k \in DOMAIN mounts :
                 ~IsMounted(os_name, drives, mounts[k]) => mounts[k].drive_letter \in G
      ELSE G = {}

\* add_mount without drive letter gave a mount the letter another mount of
\* the registry has, and that letter is still returned as available
C20_Witness ==
    /\ lastOp.name = "add_mount"
    /\ lastOp.ret = "auto"
    /\ \E k \in DOMAIN mounts :
          /\ k # lastOp.id
          /\ mounts[k].drive_letter = mounts[lastOp.id].drive_letter
          /\ mounts[k].drive_letter \in GetAvailableDrives(os_name, drives, mounts)

-----------------------------------------------------------------------------
(* Claims about the errors of discovery, checked under RegistrySpec *)

\* C21: refresh_mount_status lets no error out; with a process line that
\* gives no valid Mount the other processes on drives no config mount claims
\* are still in the registry as discovered mounts, and every config mount is
\* reconciled with the existence of its drive.
C21_RefreshNeverPropagates ==
    lastOp.name = "refresh_mount_status" =>
        /\ lastOp.ret # "raised"
        /\ \A i \in DOMAIN scan.procs :
              LET t == scan.procs[i] IN
                (FromProcessInfo(t.drive, t.pid, t.remote) # None
                 /\ t.drive \notin ConfigDrives(mounts))
                => /\ DiscKey(t.drive) \in DOMAIN mounts
                   /\ mounts[DiscKey(t.drive)].source = "discovered"
        /\ \A k \in ConfigKeys(mounts) :
              (mounts[k].status = "MOUNTED") = CheckDriveExists(os_name, drives, mounts[k])

-----------------------------------------------------------------------------
(* Claims about the mutexes, checked under LockSpec *)

LockNext ==
    \/ \E th \in Threads, m \in Managers : \E h \in DOMAIN StepsOf(th, m) : Enter(th, m, h)
    \/ \E th \in Threads : Step(th)

LockSpec == Init /\ [][LockNext]_vars

\* C22: every mutation of registry state (an entry added or removed, a status,
\* a pid or a schedule map entry changed) is made by a thread that holds the
\* manager's mutex, and no thread holds the mutex while it launches, waits on,
\* queries or terminates a subprocess.
C22_MutationsUnderMutex ==
    /\ lastStep.kind = "write" => lastStep.holds
    /\ lastStep.kind = "subprocess" => ~lastStep.holds

-----------------------------------------------------------------------------
(* Claims about the events of the mount manager, checked under MountSpec *)

\* the handlers that change the status of a mount that stays in the registry
StatusHandlers == {"mount", "unmount", "_on_mount_started", "_on_mount_finished",
                   "refresh_mount_status"}

\* handler h changes the status of a mount without a mountStatusChanged event
\* that carries the new status
SilentChange(h) ==
    /\ lastOp'.name = h
    /\ \E k \in DOMAIN mounts \cap DOMAIN mounts' :
          /\ mounts'[k].status # mounts[k].status
          /\ Ev("mountStatusChanged", k, mounts'[k].status) \notin Range(events')

\* C23: whenever mount, unmount, the completion of a worker or the
\* reconciliation of refresh_mount_status changes the status of a mount, the
\* step emits mountStatusChanged for that mount with its new status.
C23_StatusChangeEmitsEvent ==
    [][\A h \in StatusHandlers : ~SilentChange(h)]_vars

-----------------------------------------------------------------------------
(* Claims about the timer of the scheduler, checked under TimerSpec *)

TimerNext ==
    \/ ThreadStart
    \/ ThreadStop
    \/ ThreadOnTick
    \/ \E m \in Minutes : MinuteTurns(m)

TimerSpec == Init /\ [][TimerNext]_vars

\* the step is a fire of the timer
IsFire == lastOp'.name = "SchedulerThread._on_tick"

\* what a fire of the timer does: it emits a tick if and only if the minute of
\* the wall clock differs from the minute recorded at the previous tick, so a
\* fire that reads another minute than the fire or start before it emits a
\* tick, and the fires within one minute emit at most one tick
FireTicks ==
    IsFire =>
       /\ (events' = <<Tick>>) = (minute # last_minute)
       /\ events' \in {<<>>, <<Tick>>}
       /\ observed # Some(minute) => events' = <<Tick>>
       /\ fireTicks' <= 1
       /\ last_minute' = minute

\* C24 as stated: a fire of the timer emits a tick exactly when the minute
\* differs from the recorded one, and every call of start() emits exactly one
\* tick.
C24_StartAlwaysTicks ==
    [][/\ FireTicks
       /\ lastOp'.name = "SchedulerThread.start" => events' = <<Tick>>]_vars

\* C24: a fire of the timer emits a tick exactly when the minute differs from
\* the recorded one; start() emits exactly one tick when the timer is stopped
\* and none when the timer is already running.
C24_TickOncePerMinute ==
    [][/\ FireTicks
       /\ lastOp'.name = "SchedulerThread.start" =>
             events' = (IF timer_active THEN <<>> ELSE <<Tick>>)]_vars

\* the timer fires a second time within a minute, having emitted one tick
C24_Witness ==
    /\ lastOp.name = "SchedulerThread._on_tick"
    /\ fires = 2
    /\ fireTicks = 1
    /\ events = <<>>

-----------------------------------------------------------------------------
(* Claims about sync_tasks.json, checked under LoadSpec *)

\* at most this many entries in sync_tasks.json
MaxEntries == 2

LoadEntrySet ==
    {TaskEntry(id, m, st, p, sc[1], sc[2]) :
        id \in TaskIds, m \in {"bisync", "mirror"}, st \in {"paused", "done"},
        p \in {Some(50)}, sc \in {<<FALSE, "">>, <<TRUE, "*/2 * * * *">>}}

\* the arrays of at most MaxEntries entries, no id twice
LoadFiles ==
    UNION {{f \in [1 .. n -> LoadEntrySet] : \A i, j \in 1 .. n : f[i].id = f[j].id => i = j}
           : n \in 0 .. MaxEntries}

LoadNext ==
    \/ \E data \in LoadFiles : WriteTasksFile(data)
    \/ LoadTasks
    \/ \E id \in TaskIds : AddTask(id)

LoadSpec == UnitInit /\ [][LoadNext]_vars

\* the entry has an unknown mode or an unknown status
UnknownEnum(data) ==
    data.mode \notin DOMAIN SyncModes \/ data.status \notin DOMAIN SyncStatuses

\* the task an entry with a known mode and status stands for
TaskOf(data) ==
    [NewSyncTask EXCEPT !.mode = SyncModes[data.mode],
                        !.status = SyncStatuses[data.status],
                        !.progress = IF data.progress = None THEN 0 ELSE data.progress[1],
                        !.scheduled = data.scheduled,
                        !.cron_expression = data.cron_expression]

\* C25: load_tasks on an array in which some entries have an unknown mode or
\* status returns True, and the registry then holds exactly the other entries,
\* each under its id with the fields of the file, whatever entries stand
\* before or after it.
C25_LoadSkipsInvalidEntries ==
    (lastOp.name = "load_tasks" /\ tasks_file # None) =>
        LET data == tasks_file[1]
            valid == {i \in DOMAIN data : ~UnknownEnum(data[i])} IN
          /\ lastOp.ret = "True"
          /\ DOMAIN tasks = {data[i].id : i \in valid}
          /\ \A i \in valid : tasks[data[i].id] = TaskOf(data[i])

\* a valid entry was loaded from behind an invalid one
C25_Witness ==
    /\ lastOp.name = "load_tasks"
    /\ tasks_file # None
    /\ Len(tasks_file[1]) = 2
    /\ UnknownEnum(tasks_file[1][1])
    /\ ~UnknownEnum(tasks_file[1][2])
    /\ tasks_file[1][2].id \in DOMAIN tasks

-----------------------------------------------------------------------------
(* Claims about the progress of a task, checked under ProgressSpec *)

ProgressValues == {-1, 0, 50, 100, 101}

\* the percentages a worker's progress event carries: int() of a run of digits
Percentages == {0, 50, 100, 101}

ProgressFiles ==
    {<<TaskEntry(id, "sync", "idle", p, FALSE, "")>> :
        id \in TaskIds, p \in {None} \cup {Some(v) : v \in ProgressValues}}

ProgressNext ==
    \/ \E id \in TaskIds, p \in ProgressValues : ConstructTask(id, p)
    \/ \E id \in TaskIds, v \in ProgressValues : SetProgress(id, v)
    \/ \E id \in TaskIds, pct \in Percentages : OnTaskProgress(id, pct)
    \/ \E data \in ProgressFiles : WriteTasksFile(data)
    \/ LoadTasks

ProgressSpec == UnitInit /\ [][ProgressNext]_vars

\* the bound of 0..100 nearest to v
Clamped(v) == IF v < 0 THEN 0 ELSE IF v > 100 THEN 100 ELSE v

\* C26: the progress of every task is within 0..100, and a progress value
\* written at construction, through the setter, by the handler of a worker's
\* progress event or on load is stored clamped to 0..100.
C26_ProgressClamped ==
    /\ \A id \in DOMAIN tasks : tasks[id].progress \in 0 .. 100
    /\ (/\ lastOp.name \in {"SyncTask", "progress.setter", "_on_task_progress"}
        /\ lastOp.id \in DOMAIN tasks
        /\ written # None)
       => tasks[lastOp.id].progress = Clamped(written[1])
    /\ (lastOp.name = "load_tasks" /\ tasks_file # None)
       => \A i \in DOMAIN tasks_file[1] :
             LET data == tasks_file[1][i] IN
               data.progress # None
               => /\ data.id \in DOMAIN tasks
                  /\ tasks[data.id].progress = Clamped(data.progress[1])

-----------------------------------------------------------------------------
(* Claims about the command-line parser, checked under ParseSpec *)

\* a part of a command line; ok: the part is as the form
\* '<prefix> mount <remote>:<path> <LETTER>:<options>' asks
Part(chars, ok) == [chars |-> chars, ok |-> ok]

Heads ==
    {Part(<<"r", " ">>, TRUE),
     Part(<<"\"", "X", ":", "/", "m", "o", "u", "n", "t", "/", "r", "\"", " ">>, TRUE),
     Part(<<"r">>, FALSE)}
MountWords == {Part(<<"m", "o", "u", "n", "t">>, TRUE), Part(<<"m", "n", "t">>, FALSE)}
Gaps == {Part(<<" ">>, TRUE), Part(<<"\t", " ">>, TRUE), Part(<<>>, FALSE)}
Remotes ==
    {Part(<<"a">>, TRUE), Part(<<"a", ".", ".", "b">>, TRUE),
     Part(<<"_", "1", "@", "x", "-", "y">>, TRUE), Part(<<"m", "o", "u", "n", "t">>, TRUE),
     Part(<<"-", "a">>, FALSE), Part(<<"a", "/", "b">>, FALSE), Part(<<>>, FALSE)}
Paths == {<<>>, <<"d", "/", "d">>, <<"d", ":", "x">>}
\* the drive as written, and the upper-case letter it stands for
LetterWords ==
    {[chars |-> <<"X">>, ok |-> TRUE, letter |-> "X"],
     [chars |-> <<"y">>, ok |-> TRUE, letter |-> "Y"],
     [chars |-> <<"m">>, ok |-> TRUE, letter |-> "M"],
     [chars |-> <<"1">>, ok |-> FALSE, letter |-> ""],
     [chars |-> <<"X", "Y">>, ok |-> FALSE, letter |-> ""]}
Tails ==
    {Part(<<>>, TRUE), Part(<<" ">>, TRUE), Part(<<" ", "-", "-", "o", " ", "1">>, TRUE),
     Part(<<"/", "d">>, FALSE)}

\* the command lines, each with the (drive_letter, remote_name) it stands for,
\* None when a part of it breaks the form
LineCases ==
    {[line |-> Str(h.chars \o m.chars \o g1.chars \o r.chars \o <<":">> \o p
                   \o g2.chars \o l.chars \o <<":">> \o t.chars),
      expected |-> IF h.ok /\ m.ok /\ g1.ok /\ r.ok /\ g2.ok /\ l.ok /\ t.ok
                   THEN Some(<<l.letter, r.chars>>) ELSE None] :
        h \in Heads, m \in MountWords, g1 \in Gaps, r \in Remotes, p \in Paths,
        g2 \in Gaps, l \in LetterWords, t \in Tails}
    \cup {[line |-> Str(<<>>), expected |-> None], [line |-> NoStr, expected |-> None]}

ParseNext ==
    \/ lastOp.name = "init" /\ \E c \in LineCases : Receive(c.line, c.expected)
    \/ ParseCmdline

ParseSpec == UnitInit /\ [][ParseNext]_vars

\* C27: for a command line '<prefix> mount <remote>:<path> <LETTER>:' with or
\* without blanks and options behind it, the parser returns the letter in
\* upper case and the remote name as written; for a line that breaks the form,
\* for the empty string and for an argument that is no string, it returns None.
C27_ParsesMountCommandLine ==
    lastOp.name = "_parse_rclone_mount_cmdline" => parsed = expected

\* a lower-case drive behind a path that holds a colon, options behind it
C27_Witness ==
    /\ lastOp.name = "_parse_rclone_mount_cmdline"
    /\ parsed = Some(<<"Y", <<"a", ".", ".", "b">> >>)
    /\ Len(text.chars) > 20

-----------------------------------------------------------------------------
(* Claims about the progress parser, checked under StatsSpec *)

\* at most this many stretches in an output line
MaxParts == 3

OutputParts ==
    {BytesPart(Num(1, 5), "KiB", Num(3, 0), "MiB", 50),
     BytesPart(Num(7, 0), "B", Num(1, 0), "GiB", 101),
     FilesPart(3, 7),
     SpeedPart(Num(1, 5), "MiB"),
     SpeedPart(Num(2, 0), "KiB"),
     EtaPart("5s"),
     EtaPart("-"),
     NoisePart}

\* the output lines, stripped; the empty line is <<>>
OutputLines == UNION {[1 .. n -> OutputParts] : n \in 0 .. MaxParts}

StatsNext == lastOp.name = "init" /\ \E line \in OutputLines : ParseProgress("t1", line)

StatsSpec == UnitInit /\ [][StatsNext]_vars

\* the patterns that match the line
Matching(line) == {line[i].kind : i \in DOMAIN line} \ {"noise"}

\* the fields each pattern contributes to a stats-update event
FieldsOf(kind) ==
    CASE kind = "bytes" -> {"percentage", "bytes_transferred", "bytes_total"}
      [] kind = "files" -> {"files_transferred", "files_total"}
      [] kind = "speed" -> {"speed"}
      [] kind = "eta" -> {"eta"}

\* the events of the last step with signal sig
Emitted(sig) == {i \in DOMAIN events : events[i].sig = sig}

\* C28: for a parsed line, one stats_update event is emitted if at least one
\* pattern matches and none otherwise, its dict holds exactly the fields of
\* the patterns that match, and one progress event is emitted if the bytes
\* pattern matches and none otherwise; the empty line and a line that matches
\* no pattern emit nothing.
C28_EventsPerLine ==
    lastOp.name = "_parse_progress" =>
        /\ Cardinality(Emitted("stats_update")) = (IF Matching(text) # {} THEN 1 ELSE 0)
        /\ \A i \in Emitted("stats_update") :
              DOMAIN events[i].arg = UNION {FieldsOf(k) : k \in Matching(text)}
        /\ Cardinality(Emitted("progress")) = (IF "bytes" \in Matching(text) THEN 1 ELSE 0)
        /\ Matching(text) = {} => events = <<>>
        /\ Len(events) = Cardinality(Emitted("stats_update")) + Cardinality(Emitted("progress"))

\* a line that the speed and the ETA pattern match, and not the bytes pattern
C28_Witness ==
    /\ lastOp.name = "_parse_progress"
    /\ Matching(text) = {"speed", "eta"}
    /\ Len(events) = 1
    /\ events[1].sig = "stats_update"
    /\ events[1].arg["speed"] = 1572864

-----------------------------------------------------------------------------
(* config_create, config_update and config_delete, called once with any name and options *)

MaxOptions == 2

RemoteNames ==
    { <<>>, <<"a">>, <<"a", "-", "1">>, <<"a", " ", "b">>, <<"a", ";">>,
      <<"a", "\n">>, <<"\n">> }
RemoteTypes == { <<"s", "3">>, <<"s", "/">> }
OptionKeys ==
    { <<>>, <<"k">>, <<"k", "_", "1">>, <<"k", "-">>, <<"k", "=">>, <<"k", "\n">> }

\* **options: at most MaxOptions keys, each once, in the caller's order
OptionLists ==
    UNION { { keys \in [1..n -> OptionKeys] :
                \A i, j \in 1..n : i # j => keys[i] # keys[j] } : n \in 0..MaxOptions }

ConfigNext ==
    \/ lastOp.name = "init" /\ \E name \in RemoteNames, t \in RemoteTypes, keys \in OptionLists :
            ConfigCreate(name, t, keys)
    \/ lastOp.name = "init" /\ \E name \in RemoteNames, keys \in OptionLists :
            ConfigUpdate(name, keys)
    \/ lastOp.name = "init" /\ \E name \in RemoteNames : ConfigDelete(name)

ConfigSpec == UnitInit /\ [][ConfigNext]_vars

ConfigOps == {"config_create", "config_update", "config_delete"}

\* a name of one or more characters of [a-zA-Z0-9_-], a key of [a-zA-Z0-9_]
InvalidArgs ==
    \/ ~FullMatch(args.name, RemoteNameChars)
    \/ \E i \in DOMAIN args.keys : ~FullMatch(args.keys[i], OptionKeyChars)

\* C29: config_create, config_update and config_delete called with an invalid
\* remote name or with an invalid option key among their options fail with a
\* validation error and execute no command
C29_InvalidArgsExecuteNothing ==
    (lastOp.name \in ConfigOps /\ InvalidArgs)
        => (lastOp.ret = "ValueError" /\ executed = <<>>)

\* the same for every name and key that the validators' pattern search rejects
C29_RejectedArgsExecuteNothing ==
    (lastOp.name \in ConfigOps
        /\ (RemoteNameRaises(args.name) \/ OptionsRaise(args.keys)))
        => (lastOp.ret = "ValueError" /\ executed = <<>>)

-----------------------------------------------------------------------------
(* One run of a SyncWorker and one call of cancel(), every interleaving *)

RunSteps ==
    \/ RunStarted
    \/ \E raised \in BOOLEAN : RunPopen(raised)
    \/ RunCheck
    \/ RunTerminate
    \/ RunReadline
    \/ RunLine
    \/ RunEof
    \/ RunWait
    \/ RunMessage
    \/ RunEmit

CancelSteps ==
    \/ CancelSet
    \/ CancelTest
    \/ CancelTerminate
    \/ CancelWait
    \/ CancelKill
    \/ CancelCommunicate
    \/ CancelClear

CancelNext ==
    \/ RunStarted
    \/ \E raised \in BOOLEAN : RunPopen(raised)
    \/ RunCheck
    \/ RunTerminate
    \/ RunReadline
    \/ RunLine
    \/ RunEof
    \/ RunWait
    \/ RunMessage
    \/ RunEmit
    \/ \E rc \in ExitCodes : ChildExits(rc)
    \/ CancelSet
    \/ CancelTest
    \/ CancelTerminate
    \/ CancelWait
    \/ CancelKill
    \/ CancelCommunicate
    \/ CancelClear

CancelSpec == UnitInit /\ [][CancelNext]_vars

\* both threads are scheduled, and a subprocess that was signalled ends
CancelFairSpec ==
    CancelSpec /\ WF_vars(RunSteps) /\ WF_vars(CancelSteps)
               /\ WF_vars(signalled /\ \E rc \in ExitCodes : ChildExits(rc))

\* where run() stands before the subprocess is launched, while it reads the
\* output and while it waits for the exit
CancelPoints == {"start", "popen", "check", "readline", "blocked", "wait", "waiting"}

\* cancel() set the flag during a run that launched its subprocess
CancelledRun ==
    /\ cancel_at # None
    /\ cancel_at[1] \in CancelPoints
    /\ child # "none"

\* C30: for every interleaving of cancel() with run(), the finished run has
\* emitted exactly one completion event, with success false and the cancelled
\* message, and has left no subprocess running
C30_CancelledRunReportsCancelled ==
    (run_pc = "done" /\ CancelledRun)
        => /\ completions = <<Completion(FALSE, Cancelled)>>
           /\ child = "exited"

\* what holds of a finished cancelled run: one completion event, success false,
\* no subprocess running
C30_OneFailedCompletion ==
    (run_pc = "done" /\ CancelledRun)
        => /\ Len(completions) = 1
           /\ ~completions[1].ok
           /\ child = "exited"

\* a cancelled run ends
C30_RunTerminates == (cancel_at # None) ~> (run_pc = "done")

-----------------------------------------------------------------------------
(* Claims about the workers of one mount, checked under MountSpec *)

\* the mount is Mounting and its registered worker has not finished
MountingUnfinished(name) ==
    /\ name \in DOMAIN mounts
    /\ mounts[name].status = "MOUNTING"
    /\ name \in DOMAIN mount_workers
    /\ mount_workers[name] \in DOMAIN mount_threads
    /\ mount_threads[mount_workers[name]].pc = "start"

\* the workers of a mount that have not finished
UnfinishedWorkers(TH, name) ==
    {w \in DOMAIN TH : TH[w].name = name /\ TH[w].pc = "start"}

\* C31: mount(name) called while the mount is Mounting and its worker has not
\* finished does not start a second worker and does not replace the
\* registered worker handle.
C31_MountWhileMounting ==
    [][\A name \in MountNames :
         (lastOp'.name = "mount" /\ lastOp'.id = name /\ MountingUnfinished(name))
            => /\ mount_workers' = mount_workers
               /\ UnfinishedWorkers(mount_threads', name) = UnfinishedWorkers(mount_threads, name)
      ]_vars

-----------------------------------------------------------------------------
(* Claims about the runs of one sync task, checked under SyncSpec *)

\* the task is Running and the thread of its registered worker has not ended:
\* a finished signal delivered now was emitted by an earlier run
LaterRunLive(id) ==
    /\ id \in DOMAIN tasks
    /\ tasks[id].status = "RUNNING"
    /\ id \in DOMAIN workers
    /\ workers[id] \in DOMAIN sync_threads

\* C32: the completion event of an earlier, cancelled run that is delivered
\* during a later run of the same task neither changes the task's status away
\* from Running nor removes the later run's worker handle from the registry.
C32_LateCompletionIgnored ==
    [][\A id \in SyncIds :
         (lastOp'.name = "_on_task_finished" /\ lastOp'.id = id /\ LaterRunLive(id))
            => /\ tasks'[id].status = "RUNNING"
               /\ workers' = workers
      ]_vars

-----------------------------------------------------------------------------
(* Claims about unmount against the worker of the mount, checked under MountSpec *)

\* the steps of a mount worker and the slots its signals are delivered to
WorkerOps == {"mount_worker", "_on_mount_started", "_on_mount_finished"}

\* C33: after unmount(name) has returned, a step of the mount's worker or the
\* delivery of one of its signals leaves the mount Unmounted with a null pid
\* and launches no subprocess.
C33_UnmountedStaysUnmounted ==
    [][\A name \in MountNames :
         (lastOp = Op("unmount", name, "True") /\ lastOp'.name \in WorkerOps
            /\ lastOp'.id = name)
            => /\ mounts'[name].status = "UNMOUNTED"
               /\ mounts'[name].process_id = None
               /\ procs' = procs
      ]_vars

-----------------------------------------------------------------------------
(* Claims about the tick after a completed run, checked under RunSpec *)

\* the last run of the scheduled task id completed at tasks[id].last_run and
\* update_last_run handed that time to the scheduler
CompletedRun(id) ==
    /\ id \in DOMAIN tasks
    /\ tasks[id].scheduled
    /\ tasks[id].status \in {"COMPLETED", "ERROR"}
    /\ tasks[id].last_run # None
    /\ id \in DOMAIN scheduled_tasks
    /\ id \in DOMAIN last_run_times
    /\ last_run_times[id] = tasks[id].last_run[1]

\* the wall clock has reached the first cron occurrence after the completion
OccurrenceReached(id) ==
    now >= CronNext(scheduled_tasks[id], tasks[id].last_run[1])

-----------------------------------------------------------------------------
(* The scheduler with a check callback that removes a task during the tick *)

LoopCrons     == {"*/2 * * * *"}
LoopCallbacks == RemovingCallbacks \cup {"returns"}

LoopNext ==
    \/ \E t \in TaskIds, c \in LoopCrons, lr \in LastRunArgs : SchedulerAddTask(t, c, lr)
    \/ \E t \in TaskIds : SchedulerRemoveTask(t)
    \/ \E t \in TaskIds, c \in LoopCrons : SchedulerUpdateTask(t, c)
    \/ \E t \in TaskIds, rt \in LastRunArgs : SchedulerUpdateLastRun(t, rt)
    \/ SchedulerClear
    \/ \E cb \in LoopCallbacks : SetCheckCallback(cb)
    \/ \E ord \in Orders(DOMAIN scheduled_tasks) : OnTickLoop(ord)
    \/ \E t \in Times : SetClock(t)

LoopSpec == Init /\ [][LoopNext]_vars

\* the scheduler's maps name scheduled tasks only
MapsFollowScheduledTasks ==
    /\ DOMAIN last_run_times \subseteq DOMAIN scheduled_tasks
    /\ triggered_tasks \subseteq DOMAIN scheduled_tasks

\* the last tick emitted a due-event for a task after a callback had removed it
DueAfterRemoval ==
    \E i, j \in DOMAIN events :
        /\ i < j
        /\ events[i].sig = "_check_callback"
        /\ events[i].arg \in RemovingCallbacks
        /\ CallbackOn(events[i].arg) = events[i].id
        /\ events[j] = Ev("taskDue", CallbackRemoves(events[i].arg), "")

\* C35: the keys of the last-run map and the members of the triggered set are
\* ids of the scheduled-task map, also after a tick during which a callback
\* removed a task, and a tick gives no due-event to a task that was removed
\* before.
C35_MapsFollowScheduledTasks ==
    /\ MapsFollowScheduledTasks
    /\ lastOp.name = "_on_tick" => ~DueAfterRemoval


-----------------------------------------------------------------------------
(* The schedule operations of the sync manager, a reload of the tasks file
   included *)

ScheduleCrons == {"*/2 * * * *", "bogus"}

ScheduleEntries ==
    {TaskEntry(id, "bisync", "idle", Some(50), sc[1], sc[2]) :
        id \in TaskIds, sc \in {<<FALSE, "">>, <<TRUE, "*/2 * * * *">>}}

\* the task files of one entry, and the empty one
ScheduleFiles == {<<>>} \cup {<<e>> : e \in ScheduleEntries}

ScheduleNext ==
    \/ \E id \in TaskIds : AddTask(id)
    \/ \E id \in TaskIds : RemoveTask(id)
    \/ \E id \in TaskIds, c \in ScheduleCrons : EnableSchedule(id, c)
    \/ \E id \in TaskIds : DisableSchedule(id)
    \/ \E id \in TaskIds, c \in ScheduleCrons : UpdateSchedule(id, c)
    \/ \E data \in ScheduleFiles : WriteTasksFile(data)
    \/ LoadTasks

ScheduleSpec == UnitInit /\ [][ScheduleNext]_vars

\* the task's flag agrees with the scheduler's entry for it
FlagMatchesScheduler(id) ==
    tasks[id].scheduled <=>
        (IF id \in DOMAIN scheduled_tasks
         THEN scheduled_tasks[id] = tasks[id].cron_expression ELSE FALSE)

\* C36: after every operation of the sync manager a task's scheduled flag is
\* true exactly when the scheduler holds the task's id with the task's current
\* cron expression, and the scheduler holds no entry for a task that is
\* unscheduled or does not exist.
C36_ScheduledFlagMatchesScheduler ==
    /\ \A id \in DOMAIN tasks : FlagMatchesScheduler(id)
    /\ \A id \in DOMAIN tasks : ~tasks[id].scheduled => id \notin DOMAIN scheduled_tasks
    /\ DOMAIN scheduled_tasks \subseteq DOMAIN tasks

-----------------------------------------------------------------------------
(* The runs of a task across a save and a restart of the application *)

RestartNext ==
    \/ \E id \in SyncIds : AddTask(id)
    \/ \E id \in SyncIds : RunTask(id)
    \/ \E id \in SyncIds : CancelTask(id)
    \/ Deliver
    \/ \E w \in WorkerIds : WorkerLaunch(w, FALSE)
    \/ \E w \in WorkerIds, rc \in ExitCodes : WorkerExit(w, rc)
    \/ SaveTasks
    \/ Restart

RestartSpec == UnitInit /\ [][RestartNext]_vars

\* C37: between the operations of the sync manager a task has status Running
\* only if a worker handle is registered for it; in particular no task is
\* Running after the load_tasks of an application start.
C37_RunningHasWorker ==
    \A id \in DOMAIN tasks : tasks[id].status = "RUNNING" => id \in DOMAIN workers

\* a task loaded as Running at the start of the application: run_task rejects it
C37_LoadedRunning ==
    /\ lastOp.name = "SyncManager.__init__"
    /\ \E id \in DOMAIN tasks : tasks[id].status = "RUNNING" /\ RunTaskRejects(tasks, id)

-----------------------------------------------------------------------------
(* One run of a SyncWorker, its subprocess writing to both pipes *)

PipeNext ==
    \/ RunStarted
    \/ \E raised \in BOOLEAN : RunPopen(raised)
    \/ RunCheck
    \/ RunReadline
    \/ PipeReadLine
    \/ PipeEof
    \/ RunWait
    \/ RunMessage
    \/ RunEmit
    \/ \E stream \in Streams : ChildBeginsWrite(stream)
    \/ ChildCompletesWrite
    \/ \E rc \in ExitCodes : ChildEnds(rc)

PipeSpec == UnitInit /\ [][PipeNext]_vars

\* run() waits in readline for a line of stderr while the subprocess waits for
\* room in the stdout pipe, which nobody reads
BlockedOnFullPipe ==
    /\ run_pc = "blocked"
    /\ stderr_pipe = 0
    /\ pending = Some("stdout")
    /\ stdout_pipe = PipeCapacity

\* C38: a started run never ends up blocked forever with the subprocess
\* blocked on a full pipe.
C38_NeverBlockedOnFullPipe == ~BlockedOnFullPipe

\* in that state no step of the worker or of the subprocess is possible
C38_BlockedForever == BlockedOnFullPipe => ~ENABLED PipeNext

\* the run has ended with more than one completion event, or with none
C38_OneCompletion == run_pc = "done" => Len(completions) = 1

-----------------------------------------------------------------------------
(* Sessions of the mount manager on Windows: mounts are started and saved,
   the application starts again and unmounts *)

\* the drive of the mount
SessionDrives == {Upper(d) : d \in LifeDrives}

SessionNext ==
    \/ \E name \in MountNames, d \in LifeDrives, opt \in LifeOptions : AddMount(name, d, opt)
    \/ \E name \in MountNames : Mount(name)
    \/ \E name \in MountNames, e \in LifeEnvs : Unmount(name, e)
    \/ MountDeliver
    \/ \E w \in WorkerIds : MountWorkerRun(w, TRUE)
    \/ SaveMounts
    \/ \E ord \in Orders(IF mounts_file = None THEN {} ELSE mounts_file[1]), P \in LifeLists :
          StartSession(ord, P)
    \/ \E d \in SessionDrives : DriveChange(d)

SessionSpec == RegistryInit /\ [][SessionNext]_vars

\* the session has just started and load_mounts restored a pid for the mount
RestoredPid(name) ==
    /\ lastOp = Op("load_mounts", "start", "")
    /\ name \in ConfigKeys(mounts)
    /\ mounts[name].process_id # None

\* _terminate_process_gracefully was called
Terminates(cs) == \E i \in DOMAIN cs : cs[i] \in {"graceful", "graceful:raises"}

\* C39: unmount(name) never terminates a pid restored from the persisted
\* registry of an earlier session: an unmount that follows the start of the
\* session, the mount's pid being the restored one, calls no termination.
C39_RestoredPidNotTerminated ==
    [][\A name \in MountNames :
          (RestoredPid(name) /\ lastOp' = Op("unmount", name, "True")) => ~Terminates(calls')]_vars

\* the pid is restored whether the drive exists after the start or not
C39_RestoredWithDrive ==
    \E name \in MountNames :
        RestoredPid(name) /\ CheckDriveExists(os_name, drives, mounts[name])

-----------------------------------------------------------------------------
(* load_mounts over the contents mounts.json can have *)

\* the file lists at most this many objects
MaxObjects == 2

\* an object as save_mounts writes it
SavedObject(rn, d, st, cache, size) ==
    [remote_name |-> rn, remote_path |-> "", drive_letter |-> d, status |-> st,
     auto_mount |-> FALSE, read_only |-> FALSE, cache_mode |-> cache,
     vfs_cache_max_size |-> size, process_id |-> None, error_message |-> None,
     source |-> "config"]

ValidEntries ==
    {Entry({}, SavedObject(rn, "X", st, "off", "10G")) :
        rn \in BatchNames, st \in {"unmounted", "mounted"}}

\* a missing field, a bad drive letter, a bad remote name, a bad cache mode
\* and a bad cache size
InvalidEntries ==
    {Entry({"drive_letter"}, SavedObject("a", "X", "unmounted", "off", "10G")),
     Entry({}, SavedObject("a", "XY", "unmounted", "off", "10G")),
     Entry({}, SavedObject("a/b", "X", "unmounted", "off", "10G")),
     Entry({}, SavedObject("a", "X", "unmounted", "bogus", "10G")),
     Entry({}, SavedObject("a", "X", "unmounted", "off", "big"))}

FileContents ==
    {NoFile, NotJson, JsonNumber}
      \cup {JsonList(seq) : seq \in UNION {[1..n -> ValidEntries \cup InvalidEntries] :
                                              n \in 0..MaxObjects}}

FileNext ==
    \/ \E content \in FileContents, P \in LifeLists : LoadMounts(content, P)
    \/ \E name \in BatchNames, e \in LifeEnvs : Unmount(name, e)
    \/ \E d \in DriveLetters : DriveChange(d)

FileSpec == MountInit /\ [][FileNext]_vars

\* the entry is loaded, and reconciled with the drive
LoadedAndReconciled(e, M) ==
    /\ e.obj.remote_name \in DOMAIN M
    /\ (M[e.obj.remote_name].status = "MOUNTED")
          = CheckDriveExists(os_name, drives, M[e.obj.remote_name])

\* C40: load_mounts returns without raising for any content of the mounts
\* file, and an invalid entry does not prevent the valid entries from being
\* loaded and reconciled.
C40_LoadMountsNeverRaises ==
    [][\A content \in FileContents :
          LoadMounts(content, <<>>) =>
             /\ lastOp'.ret # "raised"
             /\ \A i \in DOMAIN content.data :
                   content.data[i] \in ValidEntries =>
                      LoadedAndReconciled(content.data[i], mounts')]_vars

\* without an invalid entry and with a list in the file, load_mounts returns
\* with every entry loaded and reconciled
C40_ValidFileLoads ==
    [][\A content \in FileContents :
          (/\ LoadMounts(content, <<>>)
           /\ content.kind = "list"
           /\ \A i \in DOMAIN content.data : content.data[i] \in ValidEntries) =>
             /\ lastOp'.ret # "raised"
             /\ \A i \in DOMAIN content.data :
                   LoadedAndReconciled(content.data[i], mounts')]_vars

\* what load_mounts lets through is a ValueError or a TypeError; a missing
\* field is caught, and ends the loading
C40_RaisesOnlyOnInvalid ==
    [][\A content \in FileContents :
          (LoadMounts(content, <<>>) /\ lastOp'.ret = "raised") =>
             \/ content.kind = "number"
             \/ \E i \in DOMAIN content.data :
                   /\ content.data[i] \in InvalidEntries
                   /\ content.data[i].missing = {}]_vars

=============================================================================
